---- MODULE Spec2Model ----
(***************************************************************************)
(* Model of the dlsite client's fetch pipeline: the TTL/LRU response cache *)
(* (src/src/cache.rs), the retry policy (src/src/retry.rs) and             *)
(* DlsiteClient::get with its rate limiter (src/src/client/mod.rs).        *)
(*                                                                         *)
(* Times are in milliseconds.  Three specifications share the variables:   *)
(*   SpecCache  the cache alone, driven by insert / get / clear / clock    *)
(*   SpecRetry  the pure functions of RetryConfig on drawn inputs          *)
(*   Spec       concurrent callers of DlsiteClient::get                    *)
(***************************************************************************)
EXTENDS Integers, Sequences, FiniteSets, TLC

VARIABLES
    now,        \* the clock (Instant::now / SystemTime::now), in ms
    cache,      \* LruCache contents, most recently used entry first
    rank,       \* ghost: recency rank of each key (0 = most recent, -1 = absent)
    born,       \* ghost: time of the insert that created each key's entry (-1 = absent)
    last,       \* ghost: the last cache operation, its arguments, result and pre-state
    call,       \* SpecRetry: the last call made to a RetryConfig method
    ret,        \* SpecRetry: what that call returned
    lastRequestTime,  \* DlsiteClient.last_request_time (AtomicU64), ms
    pc,         \* where each caller of DlsiteClient::get stands
    url,        \* get's local `url` of each caller
    attempt,    \* get's loop variable `attempt`
    readNow,    \* get's local `now`, read before the rate-limiter wait
    wake,       \* the time at which the caller's current sleep ends
    lastError,  \* get's local `last_error`
    result,     \* what the caller's get returned
    calls,      \* number of get calls that went to the network
    tries,      \* ghost: dispatches made by the caller's current get
    failed,     \* ghost: the error of the caller's latest failed attempt
    napped,     \* ghost: the duration handed to the caller's backoff sleep
    lastDispatchAt,   \* ghost: time of the latest dispatch (-1 = none)
    origin,     \* ghost: per URL, the body first inserted into its current entry
    latest,     \* ghost: per URL, the body of the latest insert
    answer,     \* ghost: what upstream answered the caller's latest dispatch
    passes,     \* ghost: rate-limiter passes begun by the caller's current get
    inserts,    \* ghost: cache inserts made by the caller's current get
    resultCache,  \* SearchClient.result_cache of each SearchClient value
    guard,      \* holder of the std Mutex around each result_cache
    task,       \* each search task: where it stands and its locals
    sres,       \* what each task's search call returned
    batch,      \* the running search_products_batch call, if any
    finished,   \* ghost: the batch's futures in the order they completed
    searches,   \* number of search calls each task has started
    handle,     \* each DlsiteClient value: its Arc pointers and its retry_config
    arcCache,   \* the LruCache behind each Arc<Mutex<LruCache>>
    arcStamp,   \* the AtomicU64 behind each Arc<AtomicU64>
    outcome     \* how the latest call of a public entry point ended

cacheVars == <<now, cache, rank, born, last>>
retryVars == <<call, ret>>
ghostCache == <<rank, born, last>>
clientVars == <<lastRequestTime, pc, url, attempt, readNow, wake, lastError,
                result, calls, tries, failed, napped, lastDispatchAt,
                origin, latest, answer, passes, inserts>>
searchVars == <<resultCache, guard, task, sres, batch, finished, searches>>
handleVars == <<handle, arcCache, arcStamp, outcome>>
vars == <<cacheVars, retryVars, clientVars, searchVars, handleVars>>

(***************************************************************************)
(* Bounds and configuration of the checked instance.                       *)
(***************************************************************************)
CacheCapacity == 2          \* capacity passed to ResponseCache::new
CacheTtl == 300             \* ttl passed to ResponseCache::new, ms
StartTime == 1000           \* clock value at construction
TickMs == 250               \* granularity of the modelled clock
MaxTicks == 4               \* clock advances explored

Keys == {"k1", "k2", "k3"}
Values == {"v1", "v2"}
None == "none"

(***************************************************************************)
(* lru::LruCache as used by cache.rs: a sequence of entries, index 1 the   *)
(* most recently used, Len the least recently used.                        *)
(***************************************************************************)
KeysOf(c) == {c[i].key : i \in 1..Len(c)}

IndexOf(c, k) == CHOOSE i \in 1..Len(c) : c[i].key = k

EntryOf(c, k) == c[IndexOf(c, k)]

Without(c, k) == SelectSeq(c, LAMBDA e : e.key # k)

\* LruCache::get_mut: a hit moves the entry to the front.
LruGetMut(c, k) ==
    IF k \in KeysOf(c) THEN <<EntryOf(c, k)>> \o Without(c, k) ELSE c

\* LruCache::pop: remove the entry of the key.
LruPop(c, k) == Without(c, k)

\* mutant: put never evicts
LruPutNoEvict(c, e, cap) == <<e>> \o Without(c, e.key)

\* mutant: put evicts the most recently used entry
LruPutEvictMru(c, e, cap) ==
    IF e.key \in KeysOf(c) THEN <<e>> \o Without(c, e.key)
    ELSE IF Len(c) >= cap THEN <<e>> \o Tail(c)
    ELSE <<e>> \o c

\* mutant: put on an existing key promotes it but keeps the old value
LruPutKeepOld(c, e, cap) ==
    IF e.key \in KeysOf(c) THEN <<EntryOf(c, e.key)>> \o Without(c, e.key)
    ELSE IF Len(c) >= cap THEN <<e>> \o SubSeq(c, 1, cap - 1)
    ELSE <<e>> \o c

\* mutant: put on a full cache evicts even when the key is already held
LruPutEvictOnReplace(c, e, cap) ==
    IF Len(c) >= cap THEN <<e>> \o Without(SubSeq(c, 1, cap - 1), e.key)
    ELSE <<e>> \o Without(c, e.key)

\* LruCache::put: replace and promote an existing key; otherwise drop the
\* least recently used entry when full, then add at the front.
LruPut(c, e, cap) ==
    IF e.key \in KeysOf(c) THEN <<e>> \o Without(c, e.key)
    ELSE IF Len(c) >= cap THEN <<e>> \o SubSeq(c, 1, cap - 1)
    ELSE <<e>> \o c

\* CacheEntry::is_expired
IsExpired(e, t) == t > e.expires_at

\* the cache holds an entry for k that get would return at time t
HasUnexpired(c, u, t) == u \in KeysOf(c) /\ ~IsExpired(EntryOf(c, u), t)

\* mutant: get keeps the expired entry in the map
CacheGetKeepExpired(c, k, t) ==
    IF k \in KeysOf(c)
    THEN IF ~IsExpired(EntryOf(c, k), t)
         THEN [cache |-> LruGetMut(c, k), value |-> EntryOf(c, k).data]
         ELSE [cache |-> LruGetMut(c, k), value |-> None]
    ELSE [cache |-> c, value |-> None]

\* mutant: a hit leaves the entry where it stands in the recency order
CacheGetPeek(c, k, t) ==
    IF k \in KeysOf(c)
    THEN IF ~IsExpired(EntryOf(c, k), t)
         THEN [cache |-> c, value |-> EntryOf(c, k).data]
         ELSE [cache |-> LruPop(c, k), value |-> None]
    ELSE [cache |-> c, value |-> None]

\* ResponseCache::get / GenericCache::get, under the cache lock
CacheGet(c, k, t) ==
    IF k \in KeysOf(c)
    THEN IF ~IsExpired(EntryOf(c, k), t)
         THEN [cache |-> LruGetMut(c, k), value |-> EntryOf(c, k).data]
         ELSE [cache |-> LruPop(LruGetMut(c, k), k), value |-> None]
    ELSE [cache |-> c, value |-> None]

\* mutant: insert first drops the entries whose ttl has elapsed
CacheInsertPurging(c, k, v, t, ttl, cap) ==
    LruPut(SelectSeq(c, LAMBDA e : ~IsExpired(e, t)),
           [key |-> k, data |-> v, expires_at |-> t + ttl], cap)

\* ResponseCache::insert / GenericCache::insert, under the cache lock
CacheInsert(c, k, v, t, ttl, cap) ==
    LruPut(c, [key |-> k, data |-> v, expires_at |-> t + ttl], cap)

\* mutant: clear leaves the most recently used entry behind
CacheClearButNewest(c) == IF Len(c) > 1 THEN <<c[1]>> ELSE <<>>

\* ResponseCache::clear
CacheClear(c) == <<>>

\* ResponseCache::len, ResponseCache::is_empty
CacheLen(c) == Len(c)
CacheIsEmpty(c) == Len(c) = 0

(***************************************************************************)
(* DlsiteError (src/src/error.rs) and RetryConfig (src/src/retry.rs).      *)
(* An error is a record: its kind is the enum variant, code the payload of *)
(* HttpStatus (a u16), cause what a reqwest::Error reports about itself.   *)
(***************************************************************************)
NoError == [kind |-> "none", code |-> 0, cause |-> None]
ErrTimeout == [kind |-> "Timeout", code |-> 0, cause |-> None]
ErrRateLimit == [kind |-> "RateLimit", code |-> 0, cause |-> None]
ErrHttpStatus(code) == [kind |-> "HttpStatus", code |-> code, cause |-> None]
ErrParse == [kind |-> "Parse", code |-> 0, cause |-> None]
ErrServer == [kind |-> "Server", code |-> 0, cause |-> None]
ErrSerdeJson == [kind |-> "SerdeJson", code |-> 0, cause |-> None]

\* impl From<reqwest::Error> for DlsiteError, derived by #[from]: every
\* transport error, whatever its cause, becomes the Reqwest variant.
FromReqwest(cause) == [kind |-> "Reqwest", code |-> 0, cause |-> cause]

ReqwestCauses == {"timeout", "connect", "body"}

\* mutant: every error is retryable
IsRetryableAny(e) == e.kind # "none"

\* mutant: only codes above 500 are retried
IsRetryableAbove500(err) ==
    CASE err.kind = "Timeout" -> TRUE
      [] err.kind = "RateLimit" -> TRUE
      [] err.kind = "HttpStatus" -> err.code > 500
      [] OTHER -> FALSE

\* RetryConfig::is_retryable
IsRetryable(err) ==
    CASE err.kind = "Timeout" -> TRUE
      [] err.kind = "RateLimit" -> TRUE
      [] err.kind = "HttpStatus" -> err.code >= 500
      [] OTHER -> FALSE

\* RetryConfig::default
DefaultInitialDelay == 100
DefaultMaxDelay == 10000
DefaultBackoffMultiplier == 2
DefaultMaxRetries == 3

DefaultRetryConfig ==
    [max_retries |-> DefaultMaxRetries, initial_delay |-> DefaultInitialDelay,
     max_delay |-> DefaultMaxDelay, backoff_multiplier |-> DefaultBackoffMultiplier]

\* RetryConfig::new: the multiplier is fixed at 2.0
NewRetryConfig(max_retries, initial_delay, max_delay) ==
    [max_retries |-> max_retries, initial_delay |-> initial_delay,
     max_delay |-> max_delay, backoff_multiplier |-> DefaultBackoffMultiplier]

Min(a, b) == IF a <= b THEN a ELSE b

(***************************************************************************)
(* A u32 is held as its two 16-bit halves, so that the whole range of the  *)
(* attempt parameter is represented.                                       *)
(***************************************************************************)
U32(n) == [hi |-> n \div 2^16, lo |-> n % 2^16]

\* `attempt as i32`: the bit pattern reinterpreted, so 2^31.. become negative
AsI32(a) == IF a.hi >= 2^15 THEN (a.hi - 2^16) * 2^16 + a.lo
            ELSE a.hi * 2^16 + a.lo

\* min(v * m^n, cap) for n >= 0, as f64 arithmetic yields it for the integral
\* v, m >= 1 drawn here: the product is exact until it passes cap (overflow to
\* infinity included), and .min(cap) then returns cap.
RECURSIVE GrowCapped(_, _, _, _)
GrowCapped(v, m, n, cap) ==
    IF n = 0 \/ m = 1 \/ v = 0 THEN Min(v, cap)
    ELSE IF v >= cap THEN cap
    ELSE GrowCapped(v * m, m, n - 1, cap)

\* floor(v * m^n) for n < 0 and m a power of two (Multipliers below): each step halves exactly,
\* and the truncating cast drops the fraction (underflow to zero included).
RECURSIVE ShrinkFloor(_, _, _)
ShrinkFloor(v, m, n) ==
    IF n = 0 \/ m = 1 \/ v = 0 THEN v
    ELSE ShrinkFloor(v \div m, m, n + 1)


RECURSIVE Log2(_)
Log2(m) == IF m <= 1 THEN 0 ELSE 1 + Log2(m \div 2)

\* m.powi(n) is +infinity: m^n >= 2^1024, for m a power of two
PowIsInfinite(m, n) == m > 1 /\ n >= (2^10 + Log2(m) - 1) \div Log2(m)

\* RetryConfig::calculate_delay, in ms.  0.0 * infinity is NaN, and
\* NaN.min(max_delay) is max_delay.
CalculateDelay(cfg, att) ==
    LET n == AsI32(att) IN
    IF n >= 0
    THEN IF cfg.initial_delay = 0 /\ PowIsInfinite(cfg.backoff_multiplier, n)
         THEN cfg.max_delay
         ELSE GrowCapped(cfg.initial_delay, cfg.backoff_multiplier, n, cfg.max_delay)
    ELSE Min(ShrinkFloor(cfg.initial_delay, cfg.backoff_multiplier, n),
             cfg.max_delay)

(***************************************************************************)
(* DlsiteClient (src/src/client/mod.rs): configuration of the instance.    *)
(***************************************************************************)
MinInterval == 500          \* `if elapsed < 500`, ms
MaxRetries == 1             \* retry_config.max_retries of the instance
ClientCapacity == 1         \* cache_capacity given to the builder
ClientTtl == 200            \* cache_ttl given to the builder, ms
MaxFetches == 2             \* get calls that miss the cache, explored
Horizon == 3                \* clock advances explored in Spec

Callers == {"c1", "c2"}
Paths == {"/a", "/b"}
FewPaths == {"/a"}          \* the paths asked for where one is enough
Bodies == {"b1", "b2"}
BaseUrl == "https://www.dlsite.com/maniax"

\* format!("{}{}", self.base_url, path)
Url(path) == <<BaseUrl, path>>
\* the local `url` of a caller that has not called get yet
NoUrl == <<None, None>>

Urls == {Url(p) : p \in Paths}

RetryCfg == NewRetryConfig(MaxRetries, DefaultInitialDelay, DefaultMaxDelay)

\* no dispatch of the current call has been answered
NoAnswer == [t |-> "none", cause |-> None, status |-> 0, body |-> None]

NoResult == [kind |-> "none", body |-> None, err |-> NoError, hit |-> FALSE]
Ok(body, hit) == [kind |-> "ok", body |-> body, err |-> NoError, hit |-> hit]
Err(e) == [kind |-> "err", body |-> None, err |-> e, hit |-> FALSE]

ClientIdle ==
    /\ lastRequestTime = 0
    /\ pc = [p \in Callers |-> "idle"]
    /\ url = [p \in Callers |-> NoUrl]
    /\ attempt = [p \in Callers |-> 0]
    /\ readNow = [p \in Callers |-> 0]
    /\ wake = [p \in Callers |-> 0]
    /\ lastError = [p \in Callers |-> NoError]
    /\ result = [p \in Callers |-> NoResult]
    /\ calls = 0
    /\ tries = [p \in Callers |-> 0]
    /\ failed = [p \in Callers |-> NoError]
    /\ napped = [p \in Callers |-> 0]
    /\ answer = [p \in Callers |-> NoAnswer]
    /\ passes = [p \in Callers |-> 0]
    /\ inserts = [p \in Callers |-> 0]
    /\ lastDispatchAt = -1
    /\ origin = [u \in Urls |-> None]
    /\ latest = [u \in Urls |-> None]

(***************************************************************************)
(* SearchClient (src/src/client/search/mod.rs).  A body is the JSON        *)
(* envelope upstream sent: whether it deserialises as SearchAjaxResult,    *)
(* its page_info.count and its search_result HTML, the latter as the       *)
(* sequence of `#search_result_img_box > li` containers in document order. *)
(***************************************************************************)
ResultCapacity == 1         \* capacity of the instance's result caches
ResultTtl == 200            \* ttl of the instance's result caches, ms
MaxItems == 2               \* item containers on a page
MaxSearches == 3            \* search calls explored
SearchHorizon == 1          \* clock advances explored in SpecSearch

SearchClients == {"s1"}     \* the places holding a SearchClient value
Tasks == {"t1", "t2"}
TaskOf == <<"t1", "t2">>
ProductIds == {"RJ1", "RJ2"}
Counts == {8}

\* an item container: the data-product_id it carries, if any
Containers == {[product_id |-> i] : i \in ProductIds \cup {None}}

\* the pages drawn: MaxItems different containers in any order
Htmls ==
    {h \in [1..MaxItems -> Containers] :
       \A i, j \in 1..MaxItems : i # j => h[i] # h[j]}

BadJson == [json |-> FALSE, count |-> 0, html |-> <<>>]

Pages == {[json |-> TRUE, count |-> c, html |-> h] : c \in Counts, h \in Htmls}
         \cup {BadJson}

NoTask == [pc |-> "idle", kind |-> "none", via |-> None, query |-> None,
           held |-> <<>>, peak |-> 0, again |-> FALSE, before |-> <<>>]

NoSearchResult ==
    [kind |-> "none", products |-> <<>>, count |-> 0, query_path |-> None,
     err |-> NoError, hit |-> FALSE, parsed |-> FALSE, fresh |-> FALSE,
     fed |-> <<>>, page |-> BadJson]

NoBatch == [pc |-> "idle", via |-> None, queries |-> <<>>,
            kind |-> "none", list |-> <<>>, err |-> NoError]

SearchIdle ==
    /\ resultCache = [h \in SearchClients |-> <<>>]
    /\ guard = [h \in SearchClients |-> None]
    /\ task = [t \in Tasks |-> NoTask]
    /\ sres = [t \in Tasks |-> NoSearchResult]
    /\ batch = NoBatch
    /\ finished = <<>>
    /\ searches = [t \in Tasks |-> 0]

(***************************************************************************)
(* DlsiteClient values (src/src/client/mod.rs:14-25).  A value holds two   *)
(* Arc pointers, to the LruCache of its ResponseCache and to the AtomicU64 *)
(* of its rate limiter, and a RetryConfig of its own.  A pointer is the    *)
(* index of the object in arcCache / arcStamp; root is a ghost: the build  *)
(* the value descends from.                                                *)
(***************************************************************************)
MaxCapacity == 2            \* cache capacities 0..MaxCapacity are drawn
MaxClients == 2             \* DlsiteClientBuilder::build calls explored

Handles == {"h1", "h2"}
Capacities == 0..MaxCapacity

NoHandle == [live |-> FALSE, cache |-> 0, last_request_time |-> 0,
             retry_config |-> DefaultRetryConfig, root |-> 0]

NoOutcome == [op |-> "none", via |-> None, kind |-> "none", tries |-> 0,
              capacity |-> 0]

HandlesIdle ==
    /\ handle = [h \in Handles |-> NoHandle]
    /\ arcCache = <<>>
    /\ arcStamp = <<>>
    /\ outcome = NoOutcome

(***************************************************************************)
(* Ghost bookkeeping, written from the definition of "least recently used" *)
(* and not from the sequence: rank 0 is the key used last.                 *)
(***************************************************************************)
Touch(r, k) ==
    [j \in Keys |->
        IF j = k THEN 0
        ELSE IF r[j] = -1 THEN -1
        ELSE IF r[k] = -1 \/ r[j] < r[k] THEN r[j] + 1
        ELSE r[j]]

\* drop the keys that are no longer held and close the gaps
Compact(r, held) ==
    [j \in Keys |->
        IF j \notin held THEN -1
        ELSE Cardinality({i \in held : r[i] < r[j]})]

NoOp == [op |-> "new", key |-> None, ret |-> None, at |-> StartTime,
         pre |-> <<>>, preRank |-> [j \in Keys |-> -1],
         preBorn |-> [j \in Keys |-> -1]]

Did(o, k, r) == [op |-> o, key |-> k, ret |-> r, at |-> now,
                 pre |-> cache, preRank |-> rank, preBorn |-> born]

CacheIdle ==
    /\ now = StartTime
    /\ cache = <<>>
    /\ rank = [j \in Keys |-> -1]
    /\ born = [j \in Keys |-> -1]
    /\ last = NoOp

RetryIdle ==
    /\ call = [fn |-> "none"]
    /\ ret = None

InitCache == CacheIdle /\ RetryIdle /\ ClientIdle /\ SearchIdle /\ HandlesIdle

CacheTick ==
    /\ now < StartTime + MaxTicks * TickMs
    /\ now' = now + TickMs
    /\ UNCHANGED <<cache, ghostCache, retryVars, searchVars, handleVars, clientVars>>

Insert(k, v) ==
    /\ cache' = CacheInsert(cache, k, v, now, CacheTtl, CacheCapacity)
    /\ rank' = Compact(Touch(rank, k), KeysOf(cache'))
    /\ born' = [j \in Keys |-> IF j = k THEN now
                               ELSE IF j \in KeysOf(cache') THEN born[j] ELSE -1]
    /\ last' = Did("insert", k, v)
    /\ UNCHANGED <<now, retryVars, searchVars, handleVars, clientVars>>

Get(k) ==
    LET r == CacheGet(cache, k, now) IN
    /\ cache' = r.cache
    /\ rank' = IF r.value # None THEN Touch(rank, k)
               ELSE Compact(rank, KeysOf(cache'))
    /\ born' = [j \in Keys |-> IF j \in KeysOf(cache') THEN born[j] ELSE -1]
    /\ last' = Did("get", k, r.value)
    /\ UNCHANGED <<now, retryVars, searchVars, handleVars, clientVars>>

Clear ==
    /\ cache' = CacheClear(cache)
    /\ rank' = [j \in Keys |-> -1]
    /\ born' = [j \in Keys |-> -1]
    /\ last' = Did("clear", None, None)
    /\ UNCHANGED <<now, retryVars, searchVars, handleVars, clientVars>>

NextCache ==
    \/ CacheTick
    \/ \E k \in Keys, v \in Values : Insert(k, v)
    \/ \E k \in Keys : Get(k)
    \/ Clear

SpecCache == InitCache /\ [][NextCache]_vars

(***************************************************************************)
(* SpecRetry: the two methods applied to drawn inputs.                     *)
(***************************************************************************)
MaxAttempt == 8             \* small attempts 0..MaxAttempt are all drawn

InitialDelays == {0, 1, 100, 300}
MaxDelays == {0, 1000, 10000}
Multipliers == {1, 2, 4}

RetryConfigs ==
    {DefaultRetryConfig}
    \cup {NewRetryConfig(DefaultMaxRetries, i, m) : i \in InitialDelays, m \in MaxDelays}
    \cup {[NewRetryConfig(DefaultMaxRetries, i, m) EXCEPT !.backoff_multiplier = b] :
            i \in InitialDelays, m \in MaxDelays, b \in Multipliers}

\* small attempts, and the ends of the i32 and u32 ranges
Attempts ==
    {U32(n) : n \in 0..MaxAttempt}
    \cup {[hi |-> 2^15 - 1, lo |-> 2^16 - 1], [hi |-> 2^15, lo |-> 0],
          [hi |-> 2^16 - 1, lo |-> 2^16 - 2], [hi |-> 2^16 - 1, lo |-> 2^16 - 1]}

StatusCodes == {0, 100, 200, 301, 400, 404, 429, 499, 500, 501, 503, 599, 2^16 - 1}

Errors ==
    {ErrTimeout, ErrRateLimit, ErrParse, ErrServer, ErrSerdeJson}
    \cup {ErrHttpStatus(c) : c \in StatusCodes}
    \cup {FromReqwest(c) : c \in ReqwestCauses}

CallCalculateDelay(cfg, a) ==
    /\ call' = [fn |-> "calculate_delay", cfg |-> cfg, attempt |-> a]
    /\ ret' = CalculateDelay(cfg, a)
    /\ UNCHANGED <<cacheVars, clientVars, searchVars, handleVars>>

CallIsRetryable(err) ==
    /\ call' = [fn |-> "is_retryable", err |-> err]
    /\ ret' = IsRetryable(err)
    /\ UNCHANGED <<cacheVars, clientVars, searchVars, handleVars>>

InitRetry == CacheIdle /\ RetryIdle /\ ClientIdle /\ SearchIdle /\ HandlesIdle

NextRetry ==
    \/ \E cfg \in RetryConfigs, a \in Attempts : CallCalculateDelay(cfg, a)
    \/ \E err \in Errors : CallIsRetryable(err)

SpecRetry == InitRetry /\ [][NextRetry]_vars

(***************************************************************************)
(* Spec: callers of DlsiteClient::get on one client.  A caller moves       *)
(*   idle -> (cache hit) done                                              *)
(*   idle -> rate -> [wait ->] stamp -> sent -> done | backoff -> rate ... *)
(* and each suspension point of get (rate-limiter sleep, send, backoff     *)
(* sleep) is a place where the other callers and the clock may move.       *)
(***************************************************************************)
Statuses == {200, 404, 429, 500}
Unreadable == "unreadable"      \* response.text() fails

Outcomes ==
    {[t |-> "error", cause |-> c, status |-> 0, body |-> None] :
        c \in {"timeout"}}
    \cup {[t |-> "response", cause |-> None, status |-> st, body |-> None] :
        st \in Statuses \ {200}}
    \cup {[t |-> "response", cause |-> None, status |-> 200, body |-> b] :
        b \in Bodies \cup {Unreadable}}

\* StatusCode::is_success
IsSuccess(status) == 200 <= status /\ status < 300

\* now.saturating_sub(last_time)
Elapsed(t, lastTime) == IF t >= lastTime THEN t - lastTime ELSE 0

\* mutant: the caller sleeps until the stored stamp is MinInterval old
SleepTimeFromStamp(t, lastTime) ==
    IF lastTime + MinInterval > t
    THEN [sleeps |-> TRUE, ms |-> lastTime + MinInterval - t]
    ELSE [sleeps |-> FALSE, ms |-> 0]

\* `if elapsed < 500 { sleep(Duration::from_millis(500 - elapsed)) }`
SleepTime(t, lastTime) ==
    LET elapsed == Elapsed(t, lastTime) IN
    IF elapsed < MinInterval
    THEN [sleeps |-> TRUE, ms |-> MinInterval - elapsed]
    ELSE [sleeps |-> FALSE, ms |-> 0]

\* mutant: one attempt too many
ShouldRetryOffByOne(cfg, a, err) == a <= cfg.max_retries /\ IsRetryable(err)

\* `attempt < self.retry_config.max_retries && self.retry_config.is_retryable(&err)`
ShouldRetry(cfg, a, err) == a < cfg.max_retries /\ IsRetryable(err)

\* ghost: forget the URLs the cache no longer holds
Forget(f, c) == [u \in Urls |-> IF u \in KeysOf(c) THEN f[u] ELSE None]

\* a local of get as a new call initialises it
Fresh(f, p, v) == [f EXCEPT ![p] = v]

\* mutant: a cache hit still stamps the rate limiter
GetHitStamping(p, r) ==
    /\ pc' = [pc EXCEPT ![p] = "done"]
    /\ result' = [result EXCEPT ![p] = Ok(r.value, TRUE)]
    /\ cache' = r.cache
    /\ lastRequestTime' = now
    /\ UNCHANGED <<lastDispatchAt, origin, latest, calls>>

\* get, cache hit: `return Ok(cached)`
GetHit(p, r) ==
    /\ pc' = [pc EXCEPT ![p] = "done"]
    /\ result' = [result EXCEPT ![p] = Ok(r.value, TRUE)]
    /\ cache' = r.cache
    /\ UNCHANGED <<lastRequestTime, lastDispatchAt, origin, latest, calls>>

\* get, cache miss: enter the retry loop (attempt 0, last_error None)
GetMiss(p, r) ==
    /\ calls < MaxFetches
    /\ calls' = calls + 1
    /\ pc' = [pc EXCEPT ![p] = "rate"]
    /\ result' = [result EXCEPT ![p] = NoResult]
    /\ cache' = r.cache
    /\ origin' = Forget(origin, r.cache)
    /\ latest' = Forget(latest, r.cache)
    /\ UNCHANGED <<lastRequestTime, lastDispatchAt>>

\* DlsiteClient::get up to the cache lookup; the caller has no call running
GetCall(p, path) ==
    /\ pc[p] \in {"idle", "done"}
    /\ url' = [url EXCEPT ![p] = Url(path)]
    /\ attempt' = Fresh(attempt, p, 0)
    /\ lastError' = Fresh(lastError, p, NoError)
    /\ tries' = Fresh(tries, p, 0)
    /\ failed' = Fresh(failed, p, NoError)
    /\ napped' = Fresh(napped, p, 0)
    /\ answer' = Fresh(answer, p, NoAnswer)
    /\ passes' = Fresh(passes, p, 0)
    /\ inserts' = Fresh(inserts, p, 0)
    /\ LET r == CacheGet(cache, Url(path), now) IN
       IF r.value # None THEN GetHit(p, r) ELSE GetMiss(p, r)
    /\ UNCHANGED <<now, ghostCache, retryVars, searchVars, handleVars, readNow, wake>>

\* the rate limiter's read: `now`, `last_time`, `elapsed`, and the sleep
RateLimit(p) ==
    /\ pc[p] = "rate"
    /\ readNow' = [readNow EXCEPT ![p] = now]
    /\ passes' = [passes EXCEPT ![p] = @ + 1]
    /\ LET s == SleepTime(now, lastRequestTime) IN
       IF s.sleeps
       THEN /\ wake' = [wake EXCEPT ![p] = now + s.ms]
            /\ pc' = [pc EXCEPT ![p] = "wait"]
       ELSE /\ pc' = [pc EXCEPT ![p] = "stamp"]
            /\ UNCHANGED wake
    /\ UNCHANGED <<now, cache, ghostCache, retryVars, searchVars, handleVars, lastRequestTime, url,
                   attempt, lastError, result, calls, tries, failed, napped,
                   lastDispatchAt, origin, latest, answer, inserts>>

\* tokio::time::sleep(sleep_time) returns
WaitDone(p) ==
    /\ pc[p] = "wait"
    /\ now >= wake[p]
    /\ pc' = [pc EXCEPT ![p] = "stamp"]
    /\ wake' = [wake EXCEPT ![p] = 0]
    /\ UNCHANGED <<now, cache, ghostCache, retryVars, searchVars, handleVars, lastRequestTime, url,
                   attempt, readNow, lastError, result, calls, tries, failed,
                   napped, lastDispatchAt, origin, latest, answer, passes,
                   inserts>>

\* `last_request_time.store(now)` and `client.get(&url).send()`
Dispatch(p) ==
    /\ pc[p] = "stamp"
    /\ lastRequestTime' = readNow[p]
    /\ readNow' = [readNow EXCEPT ![p] = 0]
    /\ pc' = [pc EXCEPT ![p] = "sent"]
    /\ tries' = [tries EXCEPT ![p] = @ + 1]
    /\ lastDispatchAt' = now
    /\ UNCHANGED <<now, cache, ghostCache, retryVars, searchVars, handleVars, url, attempt, wake,
                   lastError, result, calls, failed, napped, origin, latest, answer,
                   passes, inserts>>

\* mutant: past the last attempt the remembered error is returned
FailReturningRemembered(p, err) ==
    /\ failed' = [failed EXCEPT ![p] = err]
    /\ IF ShouldRetry(RetryCfg, attempt[p], err)
       THEN LET delay == CalculateDelay(RetryCfg, U32(attempt[p])) IN
            /\ lastError' = [lastError EXCEPT ![p] = err]
            /\ napped' = [napped EXCEPT ![p] = delay]
            /\ wake' = [wake EXCEPT ![p] = now + delay]
            /\ pc' = [pc EXCEPT ![p] = "backoff"]
            /\ UNCHANGED result
       ELSE /\ result' = [result EXCEPT ![p] =
                 Err(IF lastError[p] # NoError THEN lastError[p] ELSE err)]
            /\ pc' = [pc EXCEPT ![p] = "done"]
            /\ UNCHANGED <<lastError, wake, napped>>
    /\ UNCHANGED <<cache, origin, latest, inserts>>

\* mutant: a retryable error is retried whatever the attempt
FailRetryingPastLimit(p, err) ==
    /\ failed' = [failed EXCEPT ![p] = err]
    /\ IF IsRetryable(err)
       THEN LET delay == CalculateDelay(RetryCfg, U32(attempt[p])) IN
            /\ lastError' = [lastError EXCEPT ![p] = err]
            /\ napped' = [napped EXCEPT ![p] = delay]
            /\ wake' = [wake EXCEPT ![p] = now + delay]
            /\ pc' = [pc EXCEPT ![p] = "backoff"]
            /\ UNCHANGED result
       ELSE /\ result' = [result EXCEPT ![p] = Err(err)]
            /\ pc' = [pc EXCEPT ![p] = "done"]
            /\ UNCHANGED <<lastError, wake, napped>>
    /\ UNCHANGED <<cache, origin, latest, inserts>>

\* an attempt failed with err: back off and go round the loop, or return it
Fail(p, err) ==
    /\ failed' = [failed EXCEPT ![p] = err]
    /\ IF ShouldRetry(RetryCfg, attempt[p], err)
       THEN LET delay == CalculateDelay(RetryCfg, U32(attempt[p])) IN
            /\ lastError' = [lastError EXCEPT ![p] = err]
            /\ napped' = [napped EXCEPT ![p] = delay]
            /\ wake' = [wake EXCEPT ![p] = now + delay]
            /\ pc' = [pc EXCEPT ![p] = "backoff"]
            /\ UNCHANGED result
       ELSE /\ result' = [result EXCEPT ![p] = Err(err)]
            /\ pc' = [pc EXCEPT ![p] = "done"]
            /\ UNCHANGED <<lastError, wake, napped>>
    /\ UNCHANGED <<cache, origin, latest, inserts>>

\* mutant: a body that could not be read is cached all the same
BodyFailedCaching(p) ==
    /\ failed' = [failed EXCEPT ![p] = FromReqwest("body")]
    /\ result' = [result EXCEPT ![p] = Err(FromReqwest("body"))]
    /\ pc' = [pc EXCEPT ![p] = "done"]
    /\ cache' = CacheInsert(cache, url[p], Unreadable, now, ClientTtl,
                            ClientCapacity)
    /\ UNCHANGED <<origin, latest, lastError, wake, napped, inserts>>

\* `response.text().await?` fails: the error leaves get at once
BodyFailed(p) ==
    /\ failed' = [failed EXCEPT ![p] = FromReqwest("body")]
    /\ result' = [result EXCEPT ![p] = Err(FromReqwest("body"))]
    /\ pc' = [pc EXCEPT ![p] = "done"]
    /\ UNCHANGED <<cache, origin, latest, lastError, wake, napped, inserts>>

\* 2xx with a body: `self.cache.insert(url, body.clone()); return Ok(body)`
Succeed(p, body) ==
    /\ cache' = CacheInsert(cache, url[p], body, now, ClientTtl, ClientCapacity)
    /\ origin' = [u \in Urls |->
                    IF u = url[p] THEN (IF u \in KeysOf(cache) THEN origin[u] ELSE body)
                    ELSE IF u \in KeysOf(cache') THEN origin[u] ELSE None]
    /\ latest' = [u \in Urls |->
                    IF u = url[p] THEN body
                    ELSE IF u \in KeysOf(cache') THEN latest[u] ELSE None]
    /\ result' = [result EXCEPT ![p] = Ok(body, FALSE)]
    /\ inserts' = [inserts EXCEPT ![p] = @ + 1]
    /\ pc' = [pc EXCEPT ![p] = "done"]
    /\ UNCHANGED <<failed, lastError, wake, napped>>

\* mutant: no branch of its own for 429
RespondStatusOnly(p, o) ==
    /\ pc[p] = "sent"
    /\ answer' = [answer EXCEPT ![p] = o]
    /\ IF o.t = "error" THEN Fail(p, FromReqwest(o.cause))
       ELSE IF ~IsSuccess(o.status) THEN Fail(p, ErrHttpStatus(o.status))
       ELSE IF o.body = Unreadable THEN BodyFailed(p)
       ELSE Succeed(p, o.body)
    /\ UNCHANGED <<now, ghostCache, retryVars, searchVars, handleVars, lastRequestTime, url, attempt,
                   readNow, calls, tries, lastDispatchAt, passes>>

\* the match on `send().await`
Respond(p, o) ==
    /\ pc[p] = "sent"
    /\ answer' = [answer EXCEPT ![p] = o]
    /\ IF o.t = "error" THEN Fail(p, FromReqwest(o.cause))
       ELSE IF o.status = 429 THEN Fail(p, ErrRateLimit)
       ELSE IF ~IsSuccess(o.status) THEN Fail(p, ErrHttpStatus(o.status))
       ELSE IF o.body = Unreadable THEN BodyFailed(p)
       ELSE Succeed(p, o.body)
    /\ UNCHANGED <<now, ghostCache, retryVars, searchVars, handleVars, lastRequestTime, url, attempt,
                   readNow, calls, tries, lastDispatchAt, passes>>

\* mutant: the attempt after a backoff goes straight to the store and send
BackoffDoneSkippingLimiter(p) ==
    /\ pc[p] = "backoff"
    /\ now >= wake[p]
    /\ wake' = [wake EXCEPT ![p] = 0]
    /\ failed' = [failed EXCEPT ![p] = NoError]
    /\ napped' = [napped EXCEPT ![p] = 0]
    /\ answer' = [answer EXCEPT ![p] = NoAnswer]
    /\ attempt' = [attempt EXCEPT ![p] = @ + 1]
    /\ IF attempt[p] + 1 <= RetryCfg.max_retries
       THEN pc' = [pc EXCEPT ![p] = "stamp"] /\ UNCHANGED result
       ELSE /\ pc' = [pc EXCEPT ![p] = "done"]
            /\ result' = [result EXCEPT ![p] =
                 Err(IF lastError[p] # NoError THEN lastError[p] ELSE ErrParse)]
    /\ UNCHANGED <<now, cache, ghostCache, retryVars, searchVars, handleVars, lastRequestTime, url,
                   readNow, lastError, calls, tries, lastDispatchAt, origin,
                   latest, passes, inserts>>

\* the backoff sleep returns and `continue` takes the next attempt; past the
\* last attempt the loop ends and line 203 returns last_error
BackoffDone(p) ==
    /\ pc[p] = "backoff"
    /\ now >= wake[p]
    /\ wake' = [wake EXCEPT ![p] = 0]
    /\ failed' = [failed EXCEPT ![p] = NoError]
    /\ napped' = [napped EXCEPT ![p] = 0]
    /\ answer' = [answer EXCEPT ![p] = NoAnswer]
    /\ attempt' = [attempt EXCEPT ![p] = @ + 1]
    /\ IF attempt[p] + 1 <= RetryCfg.max_retries
       THEN pc' = [pc EXCEPT ![p] = "rate"] /\ UNCHANGED result
       ELSE /\ pc' = [pc EXCEPT ![p] = "done"]
            /\ result' = [result EXCEPT ![p] =
                 Err(IF lastError[p] # NoError THEN lastError[p] ELSE ErrParse)]
    /\ UNCHANGED <<now, cache, ghostCache, retryVars, searchVars, handleVars, lastRequestTime, url,
                   readNow, lastError, calls, tries, lastDispatchAt, origin,
                   latest, passes, inserts>>

\* DlsiteClient::clear_cache
ClearCache ==
    /\ cache' = CacheClear(cache)
    /\ origin' = [u \in Urls |-> None]
    /\ latest' = [u \in Urls |-> None]
    /\ UNCHANGED <<now, ghostCache, retryVars, searchVars, handleVars, lastRequestTime, pc, url, attempt,
                   readNow, wake, lastError, result, calls, tries, failed,
                   napped, lastDispatchAt, answer, passes, inserts>>

ClientTick ==
    /\ now < StartTime + Horizon * TickMs
    /\ now' = now + TickMs
    /\ UNCHANGED <<cache, ghostCache, retryVars, searchVars, handleVars, clientVars>>

Init == CacheIdle /\ RetryIdle /\ ClientIdle /\ SearchIdle /\ HandlesIdle

Next ==
    \/ \E p \in Callers, path \in Paths : GetCall(p, path)
    \/ \E p \in Callers : RateLimit(p)
    \/ \E p \in Callers : WaitDone(p)
    \/ \E p \in Callers : Dispatch(p)
    \/ \E p \in Callers, o \in Outcomes : Respond(p, o)
    \/ \E p \in Callers : BackoffDone(p)
    \/ ClearCache
    \/ ClientTick

Spec == Init /\ [][Next]_vars

\* a caller is inside tokio::time::sleep and its deadline is ahead
Sleeping(p) == pc[p] \in {"wait", "backoff"} /\ now < wake[p]

\* time passes while some caller sleeps
SleepTick ==
    /\ \E p \in Callers : Sleeping(p)
    /\ now' = now + TickMs
    /\ UNCHANGED <<cache, ghostCache, retryVars, searchVars, handleVars, clientVars>>

\* gets of one URL, with the clock running for as long as a caller sleeps
NextGet ==
    \/ \E p \in Callers, path \in FewPaths : GetCall(p, path)
    \/ \E p \in Callers : RateLimit(p)
    \/ \E p \in Callers : WaitDone(p)
    \/ \E p \in Callers : Dispatch(p)
    \/ \E p \in Callers, o \in Outcomes : Respond(p, o)
    \/ \E p \in Callers : BackoffDone(p)
    \/ ClearCache
    \/ SleepTick

\* where each caller stands, and the clock: every step of a get and every
\* tick changes one of them
position == <<pc, now>>

\* every future of get is polled until it is ready, every transport call
\* returns, and the timers fire
FairSpec ==
    /\ Init /\ [][NextGet]_vars
    /\ WF_position(SleepTick)
    /\ \A p \in Callers :
         /\ WF_position(RateLimit(p))
         /\ WF_position(WaitDone(p))
         /\ WF_position(Dispatch(p))
         /\ WF_position(\E o \in Outcomes : Respond(p, o))
         /\ WF_position(BackoffDone(p))

(***************************************************************************)
(* SpecLimiter: the rate limiter's arithmetic applied to drawn readings of *)
(* the clock and of last_request_time.  SystemTime is not monotonic, so    *)
(* the clock may read earlier than the stored stamp.                       *)
(***************************************************************************)
Readings == {0, 1, 499, 500, 501, 999, 1000, 1001, 1499, 1500, 1501, 2000}

CallSleepTime(t, lastTime) ==
    /\ call' = [fn |-> "sleep_time", now |-> t, last_time |-> lastTime]
    /\ ret' = SleepTime(t, lastTime)
    /\ UNCHANGED <<cacheVars, clientVars, searchVars, handleVars>>

InitLimiter == CacheIdle /\ RetryIdle /\ ClientIdle /\ SearchIdle /\ HandlesIdle

NextLimiter == \E t \in Readings, lastTime \in Readings : CallSleepTime(t, lastTime)

SpecLimiter == InitLimiter /\ [][NextLimiter]_vars

(***************************************************************************)
(* SpecSearch: search tasks on the SearchClient of one DlsiteClient.       *)
(* A task moves                                                            *)
(*   idle -> count  -> done      result cache hit, get in flight (the      *)
(*                               guard of result_cache is held meanwhile)  *)
(*   idle -> fetch  -> [insert ->] done      result cache miss or stream   *)
(* and a call whose get is answered from the response cache runs to its    *)
(* end in one step.  The get of DlsiteClient is taken here by its cache    *)
(* lookup, its final outcome and its cache insert; its rate limiter and    *)
(* retry loop are the subject of Spec.                                     *)
(***************************************************************************)
\* Ok(SearchResult { products, count, query_path }), or the Ok(count) of a
\* stream with the items its callback was fed; hit, parsed, fresh and page
\* are ghosts: whether the products came from the result cache, whether the
\* parse pipeline ran, whether the body came from a dispatch and not from
\* the response cache, and the body get returned
SearchOk(q, products, count, hit, parsed, fresh, fed, body) ==
    [kind |-> "ok", products |-> products, count |-> count, query_path |-> q,
     err |-> NoError, hit |-> hit, parsed |-> parsed, fresh |-> fresh,
     fed |-> fed, page |-> body]

SearchErr(e, parsed, body) ==
    [kind |-> "err", products |-> <<>>, count |-> 0, query_path |-> None,
     err |-> e, hit |-> FALSE, parsed |-> parsed, fresh |-> FALSE,
     fed |-> <<>>, page |-> body]

\* the final outcomes of DlsiteClient::get on a cache miss
GetOutcomes ==
    {[ok |-> TRUE, body |-> b, err |-> NoError] : b \in Pages}
    \cup {[ok |-> FALSE, body |-> BadJson, err |-> e] :
            e \in {ErrHttpStatus(404)}}

\* parse_search_item_html: Err(Parse) unless the container carries an id
ParseSearchItemHtml(c) ==
    IF c.product_id = None
    THEN [ok |-> FALSE, item |-> [id |-> None], err |-> ErrParse]
    ELSE [ok |-> TRUE, item |-> [id |-> c.product_id], err |-> NoError]

\* mutant: the malformed containers are left out and the rest returned
ParseSearchHtmlLenient(html) ==
    LET good == SelectSeq(html, LAMBDA c : ParseSearchItemHtml(c).ok) IN
    [ok |-> TRUE,
     items |-> [i \in 1..Len(good) |-> ParseSearchItemHtml(good[i]).item],
     err |-> NoError]

\* parse_search_html_parallel:
\* items.par_iter().map(parse_search_item_html).collect::<Result<Vec<_>>>()
ParseSearchHtmlParallel(html) ==
    IF \A i \in 1..Len(html) : ParseSearchItemHtml(html[i]).ok
    THEN [ok |-> TRUE,
          items |-> [i \in 1..Len(html) |-> ParseSearchItemHtml(html[i]).item],
          err |-> NoError]
    ELSE [ok |-> FALSE, items |-> <<>>, err |-> ErrParse]

\* mutant: the loop ends at the first item that fails to parse
RECURSIVE StreamItemsUntilBad(_)
StreamItemsUntilBad(html) ==
    IF html = <<>> THEN <<>>
    ELSE LET r == ParseSearchItemHtml(Head(html)) IN
         IF r.ok THEN <<r.item>> \o StreamItemsUntilBad(Tail(html)) ELSE <<>>

\* the loop of search_product_stream: the items handed to the callback
RECURSIVE StreamItems(_)
StreamItems(html) ==
    IF html = <<>> THEN <<>>
    ELSE LET r == ParseSearchItemHtml(Head(html)) IN
         (IF r.ok THEN <<r.item>> ELSE <<>>) \o StreamItems(Tail(html))

\* The locks a call holds, statement by statement: the std Mutex around
\* result_cache, the tokio Mutex inside GenericCache (cache_map) and the one
\* inside the ResponseCache of the DlsiteClient (response_cache).
\* `self.result_cache.lock().unwrap()`, then `cache.get(&query_path)`
LookupLocks == <<{"result_cache"}, {"result_cache", "cache_map"}>>
\* hit: `self.c.get(&query_path)` inside the block that owns the guard
CountLocks == <<{"result_cache", "response_cache"}, {"result_cache"}>>
\* miss and stream: `self.c.get(&query_path)` with no guard alive
FetchLocks == <<{"response_cache"}, {}>>
\* `self.result_cache.lock().unwrap()`, then `cache.insert(..)`
InsertLocks == <<{"result_cache"}, {"result_cache", "cache_map"}>>

\* ghost: the most locks held at one time, so far (n) and along the
\* statements that follow
Peak(n, locks) ==
    CHOOSE m \in 0..3 :
        /\ n <= m
        /\ \A i \in 1..Len(locks) : Cardinality(locks[i]) <= m
        /\ m = n \/ \E i \in 1..Len(locks) : Cardinality(locks[i]) = m

\* what follows `self.c.get(&query_path).await?` once get returned body
AfterGet(tk, body, fromCache) ==
    IF ~body.json THEN SearchErr(ErrSerdeJson, FALSE, body)
    ELSE IF tk.pc = "count"
    THEN SearchOk(tk.query, tk.held, body.count, TRUE, FALSE, ~fromCache, <<>>,
                  body)
    ELSE IF tk.kind = "stream"
    THEN SearchOk(tk.query, <<>>, body.count, FALSE, TRUE, ~fromCache,
                  StreamItems(body.html), body)
    ELSE LET r == ParseSearchHtmlParallel(body.html) IN
         IF r.ok
         THEN SearchOk(tk.query, r.items, body.count, FALSE, TRUE, ~fromCache,
                       <<>>, body)
         ELSE SearchErr(r.err, TRUE, body)

Members == {TaskOf[i] : i \in 1..Len(batch.queries)}
InBatch(t) == batch.pc \in {"running", "stuck"} /\ t \in Members

\* mutant: the outputs in the order the futures completed
JoinOutputsAsCompleted(done, outs) == [i \in 1..Len(done) |-> outs[done[i]]]

\* try_join_all: output i is the output of future i
JoinOutputs(done, outs) == [i \in 1..Len(done) |-> outs[TaskOf[i]]]

\* what a batch returned stays in `batch` until a task takes its next step
Returned(v, idle) == IF batch.pc = "done" THEN idle ELSE v

\* task t's call returns res; the guards it holds are dropped.  Inside a
\* batch, try_join_all returns the first Err it sees and drops the other
\* futures, or returns every output once the last future is done.
Complete(t, tk, rc, gd, res) ==
    LET inB == InBatch(t)
        fails == inB /\ res.kind = "err"
        dropped == IF fails THEN {u \in Members \ {t} : task[u].pc # "done"}
                   ELSE {}
        allDone == /\ inB /\ res.kind = "ok"
                   /\ \A u \in Members \ {t} : task[u].pc = "done"
        outs == [sres EXCEPT ![t] = res]
    IN
    /\ task' = [u \in Tasks |->
                  IF u = t THEN [tk EXCEPT !.pc = "done", !.held = <<>>]
                  ELSE IF u \in dropped
                  THEN [task[u] EXCEPT !.pc = "dropped", !.held = <<>>]
                  ELSE task[u]]
    /\ sres' = [u \in Tasks |-> IF u \in dropped THEN NoSearchResult ELSE outs[u]]
    /\ resultCache' = rc
    /\ guard' = [h \in SearchClients |->
                   IF gd[h] = t \/ gd[h] \in dropped THEN None ELSE gd[h]]
    /\ finished' = IF inB THEN Append(finished, t) ELSE Returned(finished, <<>>)
    /\ batch' = IF fails
                THEN [batch EXCEPT !.pc = "done", !.kind = "err", !.err = res.err]
                ELSE IF allDone
                THEN [batch EXCEPT !.pc = "done", !.kind = "ok",
                                   !.list = JoinOutputs(finished', outs)]
                ELSE Returned(batch, NoBatch)

\* task t is suspended in get, or blocked on the lock of result_cache
Suspend(t, tk, rc, gd, res) ==
    /\ task' = [task EXCEPT ![t] = tk]
    /\ sres' = [sres EXCEPT ![t] = res]
    /\ resultCache' = rc
    /\ guard' = gd
    /\ batch' = Returned(batch, NoBatch)
    /\ finished' = Returned(finished, <<>>)

\* get has returned: the hit path and the stream return; the miss path
\* parses, then locks result_cache and inserts the products
Settle(t, tk, rc, gd, res) ==
    IF tk.kind = "search" /\ tk.pc = "fetch" /\ res.kind = "ok"
    THEN IF gd[tk.via] = None
         THEN Complete(t, [tk EXCEPT !.peak = Peak(@, InsertLocks)],
                       [rc EXCEPT ![tk.via] =
                          CacheInsert(@, tk.query, res.products, now,
                                      ResultTtl, ResultCapacity)],
                       gd, res)
         ELSE Suspend(t, [tk EXCEPT !.pc = "insert"], rc, gd, res)
    ELSE Complete(t, tk, rc, gd, res)

\* ghost: the tasks whose latest call was a search for signature q that has
\* returned its products before t's new call begins
Earlier(t, q) ==
    {u \in Tasks : /\ task[u].pc = "done" /\ task[u].kind = "search"
                   /\ task[u].query = q /\ sres[u].kind = "ok"}

\* search_product up to its first suspension: lock, result cache lookup,
\* and the cache lookup of get
StartSearch(t, h, q) ==
    LET hitR == HasUnexpired(resultCache[h], q, now)
        rl == CacheGet(resultCache[h], q, now)
        rc == [resultCache EXCEPT ![h] = rl.cache]
        hitC == HasUnexpired(cache, Url(q), now)
        g == CacheGet(cache, Url(q), now)
        tk == [pc |-> IF hitR THEN "count" ELSE "fetch", kind |-> "search",
               via |-> h, query |-> q,
               held |-> IF hitR THEN rl.value ELSE <<>>,
               peak |-> Peak(0, LookupLocks \o (IF hitR THEN CountLocks
                                                 ELSE FetchLocks)),
               again |-> Earlier(t, q) # {},
               before |-> IF Earlier(t, q) # {}
                          THEN sres[CHOOSE u \in Earlier(t, q) :
                                      u = t \/ Earlier(t, q) = {u}].products
                          ELSE <<>>]
    IN
    /\ guard[h] = None
    /\ cache' = g.cache
    /\ IF hitC
       THEN Settle(t, tk, rc, guard, AfterGet(tk, g.value, TRUE))
       ELSE Suspend(t, tk, rc,
                    [guard EXCEPT ![h] = IF hitR THEN t ELSE None],
                    NoSearchResult)

RECURSIVE SumOver(_, _)
SumOver(f, S) ==
    IF S = {} THEN 0
    ELSE LET x == CHOOSE y \in S : TRUE IN f[x] + SumOver(f, S \ {x})

\* the search calls started so far
Started == SumOver(searches, Tasks)

Free(t) == task[t].pc \in {"idle", "done", "dropped"} /\ ~InBatch(t)

\* SearchClient::search_product called by a task of its own
SearchProduct(t, h, q) ==
    /\ Free(t)
    /\ Started < MaxSearches
    /\ searches' = [searches EXCEPT ![t] = @ + 1]
    /\ StartSearch(t, h, q)
    /\ UNCHANGED <<now, ghostCache, retryVars, clientVars, handleVars>>

\* mutant: the stream looks its signature up in the result caches first
SearchProductStreamLooking(t, q) ==
    LET hitC == HasUnexpired(cache, Url(q), now)
        g == CacheGet(cache, Url(q), now)
        rc == [h \in SearchClients |-> CacheGet(resultCache[h], q, now).cache]
        tk == [NoTask EXCEPT !.pc = "fetch", !.kind = "stream", !.query = q,
                             !.peak = Peak(0, FetchLocks)]
    IN
    /\ Free(t)
    /\ Started < MaxSearches
    /\ searches' = [searches EXCEPT ![t] = @ + 1]
    /\ cache' = g.cache
    /\ IF hitC
       THEN Settle(t, tk, rc, guard, AfterGet(tk, g.value, TRUE))
       ELSE Suspend(t, tk, rc, guard, NoSearchResult)
    /\ UNCHANGED <<now, ghostCache, retryVars, clientVars, handleVars>>

\* SearchClient::search_product_stream up to its first suspension
SearchProductStream(t, q) ==
    LET hitC == HasUnexpired(cache, Url(q), now)
        g == CacheGet(cache, Url(q), now)
        tk == [NoTask EXCEPT !.pc = "fetch", !.kind = "stream", !.query = q,
                             !.peak = Peak(0, FetchLocks)]
    IN
    /\ Free(t)
    /\ Started < MaxSearches
    /\ searches' = [searches EXCEPT ![t] = @ + 1]
    /\ cache' = g.cache
    /\ IF hitC
       THEN Settle(t, tk, resultCache, guard, AfterGet(tk, g.value, TRUE))
       ELSE Suspend(t, tk, resultCache, guard, NoSearchResult)
    /\ UNCHANGED <<now, ghostCache, retryVars, clientVars, handleVars>>

\* the get a task is suspended in returns: Ok(body), cached, or Err
GetReturns(t, o) ==
    /\ task[t].pc \in {"count", "fetch"}
    /\ InBatch(t) => batch.pc = "running"
    /\ IF o.ok
       THEN /\ cache' = CacheInsert(cache, Url(task[t].query), o.body, now,
                                    ClientTtl, ClientCapacity)
            /\ Settle(t, task[t], resultCache, guard,
                      AfterGet(task[t], o.body, FALSE))
       ELSE /\ cache' = cache
            /\ Complete(t, task[t], resultCache, guard,
                        SearchErr(o.err, FALSE, BadJson))
    /\ UNCHANGED <<now, ghostCache, retryVars, clientVars, handleVars, searches>>

\* the lock of result_cache is granted to a task waiting to insert
CacheResults(t) ==
    /\ task[t].pc = "insert"
    /\ InBatch(t) => batch.pc = "running"
    /\ guard[task[t].via] = None
    /\ Complete(t, [task[t] EXCEPT !.peak = Peak(@, InsertLocks)],
                [resultCache EXCEPT ![task[t].via] =
                   CacheInsert(@, task[t].query, sres[t].products, now,
                               ResultTtl, ResultCapacity)],
                guard, sres[t])
    /\ UNCHANGED <<now, cache, ghostCache, retryVars, clientVars, handleVars,
                   searches>>

\* the query slices drawn: one future, and so one task, per query
QueryLists == UNION {[1..n -> Paths] : n \in 0..Len(TaskOf)}

\* SearchClient::search_products_batch: one future per query, none polled yet
SearchProductsBatch(h, qs) ==
    /\ batch.pc \in {"idle", "done"}
    /\ \A i \in 1..Len(qs) : Free(TaskOf[i])
    /\ Started + Len(qs) <= MaxSearches
    /\ searches' = [t \in Tasks |->
                      IF \E i \in 1..Len(qs) : TaskOf[i] = t
                      THEN searches[t] + 1 ELSE searches[t]]
    /\ task' = [t \in Tasks |->
                  IF \E i \in 1..Len(qs) : TaskOf[i] = t
                  THEN [NoTask EXCEPT !.pc = "start", !.kind = "search", !.via = h,
                          !.query = qs[CHOOSE i \in 1..Len(qs) : TaskOf[i] = t]]
                  ELSE task[t]]
    /\ sres' = [t \in Tasks |->
                  IF \E i \in 1..Len(qs) : TaskOf[i] = t
                  THEN NoSearchResult ELSE sres[t]]
    /\ batch' = [pc |-> IF qs = <<>> THEN "done" ELSE "running", via |-> h,
                 queries |-> qs, kind |-> IF qs = <<>> THEN "ok" ELSE "none",
                 list |-> <<>>, err |-> NoError]
    /\ finished' = <<>>
    /\ UNCHANGED <<now, cache, ghostCache, retryVars, clientVars, handleVars,
                   resultCache, guard>>

\* try_join_all polls its futures in order: the first poll of future t
Poll(t) ==
    /\ batch.pc = "running"
    /\ t \in Members
    /\ task[t].pc = "start"
    /\ \A i, j \in 1..Len(batch.queries) :
         (TaskOf[j] = t /\ i < j) => task[TaskOf[i]].pc # "start"
    /\ StartSearch(t, task[t].via, task[t].query)
    /\ UNCHANGED <<now, ghostCache, retryVars, clientVars, handleVars, searches>>

\* a future of the batch asks for the lock of result_cache while another
\* future of the same batch, suspended in get, holds it: lock() blocks the
\* thread that polls them both
BatchBlocks(t) ==
    /\ batch.pc = "running"
    /\ t \in Members
    /\ task[t].pc \in {"start", "insert"}
    /\ guard[task[t].via] \in Members
    /\ batch' = [batch EXCEPT !.pc = "stuck"]
    /\ UNCHANGED <<cacheVars, retryVars, clientVars, handleVars, resultCache,
                   guard, task, sres, finished, searches>>

\* DlsiteClient::search(): SearchClient::new builds a SearchClient with a
\* result cache of its own; the value h held before is dropped
Search(h) ==
    /\ \A t \in Tasks : task[t].via = h => task[t].pc \in {"idle", "done", "dropped"}
    /\ resultCache' = [resultCache EXCEPT ![h] = <<>>]
    /\ guard' = [guard EXCEPT ![h] = None]
    /\ UNCHANGED <<cacheVars, retryVars, clientVars, handleVars, task, sres,
                   batch, finished, searches>>

SearchTick ==
    /\ now < StartTime + SearchHorizon * TickMs
    /\ now' = now + TickMs
    /\ UNCHANGED <<cache, ghostCache, retryVars, clientVars, searchVars,
                   handleVars>>

InitSearch == CacheIdle /\ RetryIdle /\ ClientIdle /\ SearchIdle /\ HandlesIdle

NextSearch ==
    \/ \E t \in Tasks, h \in SearchClients, q \in Paths : SearchProduct(t, h, q)
    \/ \E t \in Tasks, q \in Paths : SearchProductStream(t, q)
    \/ \E t \in Tasks, o \in GetOutcomes : GetReturns(t, o)
    \/ \E t \in Tasks : CacheResults(t)
    \/ \E h \in SearchClients, qs \in QueryLists : SearchProductsBatch(h, qs)
    \/ \E t \in Tasks : Poll(t)
    \/ \E t \in Tasks : BatchBlocks(t)
    \/ \E h \in SearchClients : Search(h)
    \/ ClearCache
    \/ SearchTick

SpecSearch == InitSearch /\ [][NextSearch]_vars

\* searches and batches for one signature
NextFair ==
    \/ \E t \in Tasks, h \in SearchClients, q \in FewPaths : SearchProduct(t, h, q)
    \/ \E t \in Tasks, o \in GetOutcomes : GetReturns(t, o)
    \/ \E t \in Tasks : CacheResults(t)
    \/ \E h \in SearchClients, qs \in QueryLists :
          (\A i \in 1..Len(qs) : qs[i] \in FewPaths) /\ SearchProductsBatch(h, qs)
    \/ \E t \in Tasks : Poll(t)
    \/ \E t \in Tasks : BatchBlocks(t)
    \/ ClearCache

\* every transport call returns, a free lock is granted, and try_join_all
\* polls each of its futures
FairSpecSearch ==
    /\ InitSearch /\ [][NextFair]_vars
    /\ \A t \in Tasks :
         /\ WF_vars(\E o \in GetOutcomes : GetReturns(t, o))
         /\ WF_vars(CacheResults(t))
         /\ WF_vars(Poll(t))

(***************************************************************************)
(* SpecCancel: the caller drops the future of a get or of a search while   *)
(* it is suspended.  Dropping a future runs the destructors of the locals  *)
(* alive at the await it is suspended at and nothing else of its body.  A  *)
(* behaviour follows either the callers of get, through every suspension   *)
(* point of get, or the search tasks, whose get is then taken as a whole.  *)
(***************************************************************************)
\* the future of caller p's get is dropped at the rate limiter's sleep, at
\* send() or text(), or at the backoff sleep
CancelGet(p) ==
    /\ pc[p] \in {"wait", "sent", "backoff"}
    /\ pc' = [pc EXCEPT ![p] = "idle"]
    /\ result' = [result EXCEPT ![p] = NoResult]
    /\ wake' = [wake EXCEPT ![p] = 0]
    /\ UNCHANGED <<cacheVars, retryVars, searchVars, handleVars,
                   lastRequestTime, url, attempt, readNow, lastError, calls,
                   tries, failed, napped, lastDispatchAt, origin, latest,
                   answer, passes, inserts>>

\* mutant: the guard of result_cache outlives the dropped future
CancelKeepingGuard(t) ==
    /\ task[t].pc \in {"count", "fetch"}
    /\ ~InBatch(t)
    /\ task' = [task EXCEPT ![t] = [@ EXCEPT !.pc = "dropped"]]
    /\ sres' = [sres EXCEPT ![t] = NoSearchResult]
    /\ batch' = Returned(batch, NoBatch)
    /\ finished' = Returned(finished, <<>>)
    /\ UNCHANGED <<cacheVars, retryVars, clientVars, handleVars, resultCache,
                   guard, searches>>

\* the future of task t's search is dropped while suspended in get: its
\* locals go, among them the MutexGuard of result_cache on the hit path
Cancel(t) ==
    /\ task[t].pc \in {"count", "fetch"}
    /\ ~InBatch(t)
    /\ task' = [task EXCEPT ![t] = [@ EXCEPT !.pc = "dropped"]]
    /\ sres' = [sres EXCEPT ![t] = NoSearchResult]
    /\ guard' = [h \in SearchClients |-> IF guard[h] = t THEN None ELSE guard[h]]
    /\ batch' = Returned(batch, NoBatch)
    /\ finished' = Returned(finished, <<>>)
    /\ UNCHANGED <<cacheVars, retryVars, clientVars, handleVars, resultCache,
                   searches>>

\* no search task has been started
NoSearches == Started = 0

\* no caller has called get
NoGets == calls = 0 /\ \A p \in Callers : pc[p] = "idle"

InitCancel == CacheIdle /\ RetryIdle /\ ClientIdle /\ SearchIdle /\ HandlesIdle

NextCancel ==
    \/ \E p \in Callers, path \in FewPaths : NoSearches /\ GetCall(p, path)
    \/ \E p \in Callers : NoSearches /\ RateLimit(p)
    \/ \E p \in Callers : NoSearches /\ WaitDone(p)
    \/ \E p \in Callers : NoSearches /\ Dispatch(p)
    \/ \E p \in Callers, o \in Outcomes : NoSearches /\ Respond(p, o)
    \/ \E p \in Callers : NoSearches /\ BackoffDone(p)
    \/ \E p \in Callers : NoSearches /\ CancelGet(p)
    \/ NoSearches /\ ClientTick
    \/ \E t \in Tasks, h \in SearchClients, q \in FewPaths :
          NoGets /\ SearchProduct(t, h, q)
    \/ \E t \in Tasks, q \in FewPaths : NoGets /\ SearchProductStream(t, q)
    \/ \E t \in Tasks, o \in GetOutcomes : NoGets /\ GetReturns(t, o)
    \/ \E t \in Tasks : NoGets /\ CacheResults(t)
    \/ \E t \in Tasks : NoGets /\ Cancel(t)
    \/ NoGets /\ SearchTick
    \/ ClearCache

SpecCancel == InitCancel /\ [][NextCancel]_vars

(***************************************************************************)
(* SpecHandles: building, cloning and using DlsiteClient values.  A get    *)
(* through a value is taken by its effects on the objects the value points *)
(* to: the cache lookup and insert, the rate limiter's store, and the      *)
(* number of dispatches its retry_config allows.                           *)
(***************************************************************************)
HandleConfigs ==
    {DefaultRetryConfig, NewRetryConfig(0, DefaultInitialDelay, DefaultMaxDelay)}

\* how a call of a public entry point ended
Ended(op, h, kind, n, capacity) ==
    [op |-> op, via |-> h, kind |-> kind, tries |-> n, capacity |-> capacity]

\* ResponseCache::new: NonZeroUsize::new(capacity).unwrap()
NewResponseCache(capacity) ==
    IF capacity = 0 THEN [kind |-> "panic", capacity |-> 0, entries |-> <<>>]
    ELSE [kind |-> "ok", capacity |-> capacity, entries |-> <<>>]

\* ResponseCache::new called on its own; the cache is dropped at once
NewCache(capacity) ==
    /\ outcome' = Ended("new", None, NewResponseCache(capacity).kind, 0, capacity)
    /\ UNCHANGED <<cacheVars, retryVars, clientVars, searchVars, handle,
                   arcCache, arcStamp>>

\* DlsiteClientBuilder::new(base_url).cache(capacity, ttl).build()
Build(h, capacity) ==
    /\ ~handle[h].live
    /\ Len(arcCache) < MaxClients
    /\ LET c == NewResponseCache(capacity)
           id == Len(arcCache) + 1
       IN IF c.kind = "panic"
          THEN /\ outcome' = Ended("build", h, "panic", 0, capacity)
               /\ UNCHANGED <<handle, arcCache, arcStamp>>
          ELSE /\ arcCache' = Append(arcCache, c)
               /\ arcStamp' = Append(arcStamp, 0)
               /\ handle' = [handle EXCEPT ![h] =
                    [live |-> TRUE, cache |-> id, last_request_time |-> id,
                     retry_config |-> DefaultRetryConfig, root |-> id]]
               /\ outcome' = Ended("build", h, "ok", 0, capacity)
    /\ UNCHANGED <<cacheVars, retryVars, clientVars, searchVars>>

\* mutant: clone copies the cache and the limiter into objects of its own
CloneClientDeep(hd, n) ==
    [value |-> [hd EXCEPT !.cache = n + 1, !.last_request_time = n + 1],
     copied |-> TRUE]

\* #[derive(Clone)] on DlsiteClient: Arc::clone for the two pointers,
\* RetryConfig::clone for the configuration
CloneClient(hd, n) == [value |-> hd, copied |-> FALSE]

\* let g = h.clone()
Clone(h, g) ==
    /\ handle[h].live
    /\ ~handle[g].live
    /\ LET c == CloneClient(handle[h], Len(arcCache)) IN
       /\ handle' = [handle EXCEPT ![g] = c.value]
       /\ arcCache' = IF c.copied
                      THEN Append(arcCache, arcCache[handle[h].cache])
                      ELSE arcCache
       /\ arcStamp' = IF c.copied
                      THEN Append(arcStamp, arcStamp[handle[h].last_request_time])
                      ELSE arcStamp
    /\ outcome' = Ended("clone", g, "ok", 0, 0)
    /\ UNCHANGED <<cacheVars, retryVars, clientVars, searchVars>>

\* DlsiteClient::set_retry_config(&mut self, config)
SetRetryConfig(h, cfg) ==
    /\ handle[h].live
    /\ handle' = [handle EXCEPT ![h].retry_config = cfg]
    /\ outcome' = Ended("set_retry_config", h, "ok", 0, 0)
    /\ UNCHANGED <<cacheVars, retryVars, clientVars, searchVars, arcCache,
                   arcStamp>>

\* what the server answers to every dispatch of one get
Answers ==
    {o \in Outcomes : o.t = "response" /\ o.body \in {None, "b1"}}

\* DlsiteClient::get through value h, every attempt answered the same way:
\* a cached body is returned at once; otherwise each dispatch stores the
\* time in the limiter, a 2xx body is cached, and a failure is retried as
\* often as h's retry_config allows
HandleGet(h, path, o) ==
    LET hd == handle[h]
        c == arcCache[hd.cache]
    IN
    /\ hd.live
    /\ IF HasUnexpired(c.entries, Url(path), now)
       THEN /\ arcCache' = [arcCache EXCEPT ![hd.cache].entries =
                              CacheGet(c.entries, Url(path), now).cache]
            /\ outcome' = Ended("get", h, "ok", 0, 0)
            /\ UNCHANGED arcStamp
       ELSE /\ arcStamp' = [arcStamp EXCEPT ![hd.last_request_time] = now]
            /\ IF IsSuccess(o.status)
               THEN /\ arcCache' = [arcCache EXCEPT ![hd.cache].entries =
                         CacheInsert(CacheGet(c.entries, Url(path), now).cache,
                                     Url(path), o.body, now, ClientTtl,
                                     c.capacity)]
                    /\ outcome' = Ended("get", h, "ok", 1, 0)
               ELSE LET err == IF o.status = 429 THEN ErrRateLimit
                               ELSE ErrHttpStatus(o.status)
                    IN
                    /\ arcCache' = [arcCache EXCEPT ![hd.cache].entries =
                                      CacheGet(c.entries, Url(path), now).cache]
                    /\ outcome' = Ended("get", h, "err",
                                        IF IsRetryable(err)
                                        THEN hd.retry_config.max_retries + 1
                                        ELSE 1, 0)
    /\ UNCHANGED <<cacheVars, retryVars, clientVars, searchVars, handle>>

\* mutant: get_raw passes the rate limiter's store like get
GetRawStamping(h, ok) ==
    /\ handle[h].live
    /\ outcome' = Ended("get_raw", h, IF ok THEN "ok" ELSE "err", 1, 0)
    /\ arcStamp' = [arcStamp EXCEPT ![handle[h].last_request_time] = now]
    /\ UNCHANGED <<cacheVars, retryVars, clientVars, searchVars, handle,
                   arcCache>>

\* DlsiteClient::get_raw: send and text, each through `?`
GetRaw(h, ok) ==
    /\ handle[h].live
    /\ outcome' = Ended("get_raw", h, IF ok THEN "ok" ELSE "err", 1, 0)
    /\ UNCHANGED <<cacheVars, retryVars, clientVars, searchVars, handle,
                   arcCache, arcStamp>>

\* DlsiteClient::clear_cache through value h
HandleClear(h) ==
    /\ handle[h].live
    /\ arcCache' = [arcCache EXCEPT ![handle[h].cache].entries = CacheClear(@)]
    /\ outcome' = Ended("clear_cache", h, "ok", 0, 0)
    /\ UNCHANGED <<cacheVars, retryVars, clientVars, searchVars, handle,
                   arcStamp>>

InitHandles == CacheIdle /\ RetryIdle /\ ClientIdle /\ SearchIdle /\ HandlesIdle

NextHandles ==
    \/ \E capacity \in Capacities : NewCache(capacity)
    \/ \E h \in Handles, capacity \in Capacities : Build(h, capacity)
    \/ \E h, g \in Handles : Clone(h, g)
    \/ \E h \in Handles, cfg \in HandleConfigs : SetRetryConfig(h, cfg)
    \/ \E h \in Handles, path \in Paths, o \in Answers : HandleGet(h, path, o)
    \/ \E h \in Handles, ok \in BOOLEAN : GetRaw(h, ok)
    \/ \E h \in Handles : HandleClear(h)

SpecHandles == InitHandles /\ [][NextHandles]_vars

(***************************************************************************)
(* Claims about the retry policy, checked under SpecRetry.                 *)
(***************************************************************************)

\* C6: isRetryable(error) is true exactly for the timeout kind, the
\* rate-limited kind and HTTP-status errors with code >= 500, and false for
\* every other kind (HTTP below 500, malformed response, parse failure,
\* other transport errors).
C6_RetryableExactly ==
    call.fn = "is_retryable" =>
      LET e == call.err IN
      /\ e.kind \in {"Timeout", "RateLimit"} => ret = TRUE
      /\ e.kind = "HttpStatus" => (ret = TRUE <=> e.code >= 500)
      /\ e.kind \in {"Reqwest", "SerdeJson", "Parse", "Server"} => ret = FALSE
      /\ e \in {ErrHttpStatus(400), ErrHttpStatus(404)} => ret = FALSE

\* is_retryable has been applied to HTTP 500, the lowest retryable code
C6_Witness ==
    /\ call.fn = "is_retryable"
    /\ call.err = ErrHttpStatus(500)
    /\ ret = TRUE

\* min(v * m^a, cap) for the attempt's own value a = hi * 2^16 + lo
RECURSIVE FormulaDelay(_, _, _, _, _)
FormulaDelay(v, m, hi, lo, cap) ==
    IF (hi = 0 /\ lo = 0) \/ m = 1 \/ v = 0 THEN Min(v, cap)
    ELSE IF v >= cap THEN cap
    ELSE IF lo > 0 THEN FormulaDelay(v * m, m, hi, lo - 1, cap)
    ELSE FormulaDelay(v * m, m, hi - 1, 2^16 - 1, cap)

\* C7: calculateDelay(a) = min(initialDelay * backoffMultiplier^a, maxDelay)
\* in whole milliseconds for every attempt a; 100, 200, 400 ms for a = 0, 1, 2
\* under the default config; never above maxDelay.
C7_DelayFormula ==
    call.fn = "calculate_delay" =>
      LET cfg == call.cfg
          a == call.attempt IN
      /\ ret = FormulaDelay(cfg.initial_delay, cfg.backoff_multiplier,
                            a.hi, a.lo, cfg.max_delay)
      /\ ret <= cfg.max_delay
      /\ (cfg = DefaultRetryConfig /\ a = U32(0)) => ret = 100
      /\ (cfg = DefaultRetryConfig /\ a = U32(1)) => ret = 200
      /\ (cfg = DefaultRetryConfig /\ a = U32(2)) => ret = 400

(***************************************************************************)
(* Claims about the cache, checked under SpecCache.                        *)
(***************************************************************************)

\* C1: for a cache of capacity N >= 1, len() <= N after every insert, get
\* and clear, whatever the order in which callers' operations take the lock.
C1_LenWithinCapacity == CacheCapacity >= 1 /\ CacheLen(cache) <= CacheCapacity

\* an insert of a new key into a full cache has just happened
C1_Witness ==
    /\ last.op = "insert"
    /\ last.key \notin KeysOf(last.pre)
    /\ CacheLen(last.pre) = CacheCapacity
    /\ CacheLen(cache) = CacheCapacity

\* the least recently used key of a cache state, by the ghost ranks
LeastRecent(c, r) ==
    CHOOSE k \in KeysOf(c) : \A j \in KeysOf(c) : r[j] <= r[k]

\* C2: inserting an absent key into a full cache removes exactly one entry,
\* the least recently used one (least recently inserted or hit by get), and
\* leaves every other entry in place.
C2_EvictsExactlyLru ==
    (/\ last.op = "insert"
     /\ last.key \notin KeysOf(last.pre)
     /\ CacheLen(last.pre) = CacheCapacity)
    => LET victim == LeastRecent(last.pre, last.preRank) IN
       /\ KeysOf(cache) = (KeysOf(last.pre) \ {victim}) \cup {last.key}
       /\ CacheLen(cache) = CacheLen(last.pre)
       /\ \A j \in KeysOf(last.pre) \ {victim} :
             EntryOf(cache, j) = EntryOf(last.pre, j)
       /\ EntryOf(cache, last.key).data = last.ret

\* the spec's example at capacity 2: k1, k2 held with k1 the older, k3 inserted
C2_Witness ==
    /\ last.op = "insert"
    /\ last.key = "k3"
    /\ KeysOf(last.pre) = {"k1", "k2"}
    /\ last.preRank["k1"] > last.preRank["k2"]
    /\ KeysOf(cache) = {"k2", "k3"}

\* C3: get never returns a value past its expiry (insert time + ttl): an
\* entry whose ttl has not elapsed is returned, in particular right after its
\* insert; once the ttl has elapsed get reports it absent and removes it, so
\* len() drops by one.
C3_LazyExpiry ==
    last.op = "get" =>
      IF last.key \in KeysOf(last.pre)
      THEN LET e == EntryOf(last.pre, last.key)
               expiresAt == last.preBorn[last.key] + CacheTtl IN
           IF last.at > expiresAt
           THEN /\ last.ret = None
                /\ last.key \notin KeysOf(cache)
                /\ CacheLen(cache) = CacheLen(last.pre) - 1
           ELSE /\ last.ret = e.data
                /\ CacheLen(cache) = CacheLen(last.pre)
      ELSE last.ret = None /\ cache = last.pre

\* a get found its key's entry expired
C3_Witness ==
    /\ last.op = "get"
    /\ last.key \in KeysOf(last.pre)
    /\ last.at > last.preBorn[last.key] + CacheTtl
    /\ last.ret = None
    /\ CacheLen(cache) = CacheLen(last.pre) - 1

(***************************************************************************)
(* Claims about DlsiteClient::get, checked under Spec.                     *)
(***************************************************************************)

\* caller p dispatches in this step
Dispatches(p) == pc[p] = "stamp" /\ pc'[p] = "sent"

\* C4: any two dispatches made through one client (successive gets, retries
\* of one get, concurrent callers) are at least the minimum interval apart.
C4_MinGapBetweenDispatches ==
    [][\A p \in Callers :
         (Dispatches(p) /\ lastDispatchAt # -1)
         => now - lastDispatchAt >= MinInterval]_vars

\* the retryable kinds, as the claims name them
RetryableKind(e) ==
    \/ e.kind \in {"Timeout", "RateLimit"}
    \/ e.kind = "HttpStatus" /\ e.code >= 500

\* C5: a get that misses the cache dispatches at most maxRetries + 1 times;
\* after failed attempt a it goes on only if a < maxRetries and the error is
\* retryable, sleeping calculateDelay(a) first, and otherwise returns that
\* attempt's error.
C5_RetryBudget ==
    \A p \in Callers :
      /\ tries[p] <= RetryCfg.max_retries + 1
      /\ pc[p] = "backoff" =>
           /\ attempt[p] < RetryCfg.max_retries
           /\ RetryableKind(failed[p])
           /\ napped[p] = CalculateDelay(RetryCfg, U32(attempt[p]))
           /\ wake[p] - napped[p] <= now
           /\ tries[p] = attempt[p] + 1
      /\ (pc[p] = "done" /\ result[p].kind = "err") =>
           /\ result[p].err = failed[p]
           /\ ~(attempt[p] < RetryCfg.max_retries /\ RetryableKind(failed[p]))
           /\ tries[p] = attempt[p] + 1

\* a get has used its whole budget and returned the last attempt's error
C5_Witness ==
    \E p \in Callers :
      /\ pc[p] = "done"
      /\ result[p].kind = "err"
      /\ RetryableKind(result[p].err)
      /\ attempt[p] = RetryCfg.max_retries
      /\ tries[p] = RetryCfg.max_retries + 1

\* caller p, with no call running, calls get in this step
Calls(p) ==
    /\ pc[p] \in {"idle", "done"}
    /\ <<pc[p], url[p], result[p]>> # <<pc'[p], url'[p], result'[p]>>

\* C8: a get whose full URL has an unexpired entry in the response cache
\* returns the cached body without the rate limiter, without a dispatch and
\* without retry bookkeeping; the stored last-dispatch time and the dispatch
\* count are unchanged by that call.
C8_HitIsFree ==
    [][\A p \in Callers :
         (Calls(p) /\ HasUnexpired(cache, url'[p], now))
         => /\ pc'[p] = "done"
            /\ result'[p] = Ok(EntryOf(cache, url'[p]).data, TRUE)
            /\ lastRequestTime' = lastRequestTime
            /\ lastDispatchAt' = lastDispatchAt
            /\ tries'[p] = 0
            /\ attempt'[p] = 0 /\ lastError'[p] = NoError
            /\ readNow' = readNow /\ wake' = wake]_vars

\* a get was served from the cache after the client had dispatched
C8_Witness ==
    \E p \in Callers :
      /\ pc[p] = "done"
      /\ result[p].hit
      /\ tries[p] = 0
      /\ lastDispatchAt # -1
      /\ lastRequestTime > 0

\* caller p's get returns from the cache in this step
Hits(p) == Calls(p) /\ pc'[p] = "done" /\ result'[p].hit

\* caller p's get returns the body of a 2xx response in this step
Fetches(p) == pc[p] = "sent" /\ pc'[p] = "done" /\ result'[p].kind = "ok"

\* on a 2xx response get inserts (url, body) and returns the body
InsertsOnSuccess(p) ==
    Fetches(p) =>
      /\ url[p] \in KeysOf(cache')
      /\ EntryOf(cache', url[p]).data = result'[p].body
      /\ EntryOf(cache', url[p]).expires_at = now + ClientTtl
      /\ latest'[url[p]] = result'[p].body

\* C9 as stated: on 2xx get inserts (url, body) and returns the body; every
\* later get for the path, while that entry is neither expired nor evicted
\* nor cleared, returns that same body with no dispatch.
C9_SameBodyUntilRemoved ==
    [][\A p \in Callers :
         /\ InsertsOnSuccess(p)
         /\ Hits(p) => /\ result'[p].body = origin[url'[p]]
                       /\ lastDispatchAt' = lastDispatchAt]_vars

\* C9 amended: ... while that entry is neither expired nor evicted nor
\* cleared nor replaced by a later 2xx insert for the same URL; after a
\* replacement the hit returns the replacing body.
C9_HitReturnsLatestInsert ==
    [][\A p \in Callers :
         /\ InsertsOnSuccess(p)
         /\ Hits(p) => /\ result'[p].body = latest[url'[p]]
                       /\ lastDispatchAt' = lastDispatchAt
                       /\ tries'[p] = 0]_vars

\* a hit served an entry that a second 2xx insert for the URL had replaced
C9_Witness ==
    \E p \in Callers :
      /\ pc[p] = "done"
      /\ result[p].hit
      /\ url[p] \in KeysOf(cache)
      /\ origin[url[p]] # latest[url[p]]
      /\ result[p].body = latest[url[p]]

\* C10: a transport-level timeout on attempt a < maxRetries becomes the
\* retryable timeout kind, so get sleeps calculateDelay(a) and dispatches
\* again instead of returning the error.
C10_TimeoutIsRetried ==
    \A p \in Callers :
      (failed[p].cause = "timeout" /\ attempt[p] < RetryCfg.max_retries)
      => /\ failed[p].kind = "Timeout"
         /\ pc[p] = "backoff"
         /\ napped[p] = CalculateDelay(RetryCfg, U32(attempt[p]))

\* C11: an error that is not retryable (HTTP 404, an unreadable body, ...)
\* leaves get as that typed failure after the dispatch on which it occurred,
\* with no backoff sleep and no further dispatch, however many attempts
\* remain; a failed attempt is never returned as a success nor lost: the
\* call is either backing off for a retry or has returned that very error.
C11_NonRetryableSurfaces ==
    \A p \in Callers :
      failed[p] # NoError =>
        /\ pc[p] \in {"backoff", "done"}
        /\ pc[p] = "done" => result[p] = Err(failed[p])
        /\ ~RetryableKind(failed[p]) =>
             /\ pc[p] = "done"
             /\ napped[p] = 0 /\ wake[p] = 0
             /\ tries[p] = attempt[p] + 1

\* a 404 on the first attempt was returned although a retry remained
C11_Witness ==
    \E p \in Callers :
      /\ pc[p] = "done"
      /\ result[p] = Err(ErrHttpStatus(404))
      /\ attempt[p] = 0 /\ attempt[p] < RetryCfg.max_retries
      /\ tries[p] = 1

\* C12: an HTTP 429 response becomes the rate-limit error, never the generic
\* HTTP-status error; while attempts remain get backs off calculateDelay(a)
\* and retries, and on the last attempt get returns the rate-limit error.
C12_TooManyRequests ==
    \A p \in Callers :
      (answer[p].t = "response" /\ answer[p].status = 429) =>
        /\ failed[p].kind = "RateLimit"
        /\ attempt[p] < RetryCfg.max_retries =>
             /\ pc[p] = "backoff"
             /\ lastError[p].kind = "RateLimit"
             /\ napped[p] = CalculateDelay(RetryCfg, U32(attempt[p]))
        /\ attempt[p] >= RetryCfg.max_retries =>
             /\ pc[p] = "done"
             /\ result[p].kind = "err"
             /\ result[p].err.kind = "RateLimit"

\* a 429 was retried and the 429 of the last attempt came back as the
\* rate-limit error
C12_Witness ==
    \E p \in Callers :
      /\ answer[p].status = 429
      /\ pc[p] = "done"
      /\ result[p].kind = "err" /\ result[p].err.kind = "RateLimit"
      /\ lastError[p].kind = "RateLimit"
      /\ attempt[p] = RetryCfg.max_retries /\ attempt[p] > 0
      /\ tries[p] = RetryCfg.max_retries + 1

(***************************************************************************)
(* Further claims about the cache, checked under SpecCache.                *)
(***************************************************************************)

\* C20: after clear() len() is 0 and is_empty() is true whatever the cache
\* held before; a get on the emptied cache returns absent and leaves it
\* empty, so every get is absent until the next insert; and a clear() of an
\* already cleared cache changes nothing.
C20_ClearEmpties ==
    /\ last.op = "clear" =>
         /\ CacheLen(cache) = 0
         /\ CacheIsEmpty(cache)
         /\ \A k \in Keys : CacheGet(cache, k, now).value = None
    /\ (last.op = "get" /\ last.pre = <<>>) =>
         /\ last.ret = None
         /\ cache = <<>>
    /\ (last.op = "clear" /\ last.pre = <<>>) =>
         /\ cache = last.pre
         /\ rank = last.preRank
         /\ born = last.preBorn

\* a full cache of unexpired entries was cleared
C20_Witness ==
    /\ last.op = "clear"
    /\ Len(last.pre) = CacheCapacity
    /\ \A i \in 1..Len(last.pre) : ~IsExpired(last.pre[i], last.at)
    /\ CacheLen(cache) = 0

(***************************************************************************)
(* Claims about SearchClient, checked under SpecSearch.                    *)
(***************************************************************************)

\* task t's latest search_product call has returned Ok
Found(t) ==
    task[t].pc = "done" /\ task[t].kind = "search" /\ sres[t].kind = "ok"

\* C13: of two search calls made through one client with the same
\* signature, the second returns the items of the first and does not run
\* the parse pipeline: its items come from the result cache.
C13_SecondSearchReusesItems ==
    \A t \in Tasks :
      (Found(t) /\ task[t].again) =>
        /\ sres[t].products = task[t].before
        /\ sres[t].hit
        /\ ~sres[t].parsed

\* C14: a search served from the result cache still calls get for the
\* signature's path, and the count it returns was obtained from upstream by
\* that call, never taken from a cache.
C14_CountIsFresh ==
    \A t \in Tasks :
      (Found(t) /\ sres[t].hit) =>
        /\ sres[t].page.json
        /\ sres[t].count = sres[t].page.count
        /\ sres[t].fresh

\* task t's search_product runs the bulk-parallel parse in this step
ParsesIn(t) ==
    /\ task[t].pc \in {"fetch", "start"} \/ searches'[t] # searches[t]
    /\ task'[t].kind = "search"
    /\ task'[t].pc \in {"done", "insert"}
    /\ sres'[t].parsed

WellFormed(c) == c.product_id # None

\* no entry has been added to or replaced in the result cache of h
NothingInserted(h) ==
    \A k \in KeysOf(resultCache'[h]) :
      /\ k \in KeysOf(resultCache[h])
      /\ EntryOf(resultCache'[h], k) = EntryOf(resultCache[h], k)

\* C15: the bulk-parallel parse is all-or-nothing: when every item container
\* parses, search gets one record per container in document order; when one
\* container fails to parse, the call returns an error and no items and
\* inserts nothing into the result cache.
C15_BulkParseAllOrNothing ==
    [][\A t \in Tasks :
         ParsesIn(t) =>
           LET html == sres'[t].page.html IN
           IF \A i \in 1..Len(html) : WellFormed(html[i])
           THEN /\ sres'[t].kind = "ok"
                /\ Len(sres'[t].products) = Len(html)
                /\ \A i \in 1..Len(html) :
                     sres'[t].products[i].id = html[i].product_id
           ELSE /\ sres'[t].kind = "err"
                /\ sres'[t].err.kind = "Parse"
                /\ sres'[t].products = <<>>
                /\ task'[t].pc = "done"
                /\ NothingInserted(task'[t].via)]_vars

\* a search failed on a page with a malformed container among well-formed
\* ones, and its signature is not in the result cache
C15_Witness ==
    \E t \in Tasks :
      /\ task[t].pc = "done" /\ task[t].kind = "search"
      /\ sres[t].kind = "err" /\ sres[t].parsed
      /\ \E i, j \in 1..Len(sres[t].page.html) :
           /\ WellFormed(sres[t].page.html[i])
           /\ ~WellFormed(sres[t].page.html[j])
      /\ task[t].query \notin KeysOf(resultCache[task[t].via])

\* the number of well-formed containers among the first n of html
GoodUpTo(html, n) == Cardinality({i \in 1..n : WellFormed(html[i])})

\* C16: streaming search hands the callback each well-formed item once, in
\* document order, skips the items that fail to parse without failing the
\* call, and returns the count of the page envelope, not the number of
\* items handed to the callback.
C16_StreamSkipsBadItems ==
    \A t \in Tasks :
      (task[t].pc = "done" /\ task[t].kind = "stream" /\ sres[t].page.json) =>
        LET html == sres[t].page.html IN
        /\ sres[t].kind = "ok"
        /\ sres[t].count = sres[t].page.count
        /\ Len(sres[t].fed) = GoodUpTo(html, Len(html))
        /\ \A i \in 1..Len(html) :
             WellFormed(html[i]) =>
               sres[t].fed[GoodUpTo(html, i)].id = html[i].product_id

\* a stream skipped a malformed container placed before a well-formed one
\* and returned a count that is not the number of items it handed over
C16_Witness ==
    \E t \in Tasks :
      /\ task[t].pc = "done" /\ task[t].kind = "stream"
      /\ sres[t].kind = "ok"
      /\ \E i, j \in 1..Len(sres[t].page.html) :
           /\ i < j
           /\ ~WellFormed(sres[t].page.html[i])
           /\ WellFormed(sres[t].page.html[j])
      /\ Len(sres[t].fed) >= 1
      /\ sres[t].count # Len(sres[t].fed)

\* C17: search_products_batch returns its results in the order of its input
\* queries whatever the order in which the searches complete, each result
\* being that of the search run for the query in its place; when any query
\* fails it returns that error and no result list, and while the batch runs
\* none of its searches has failed.
C17_BatchKeepsInputOrder ==
    /\ (batch.pc = "done" /\ batch.kind = "ok") =>
         /\ Len(batch.list) = Len(batch.queries)
         /\ \A i \in 1..Len(batch.queries) :
              /\ batch.list[i].kind = "ok"
              /\ batch.list[i].query_path = batch.queries[i]
              /\ batch.list[i] = sres[TaskOf[i]]
    /\ (batch.pc = "done" /\ batch.kind = "err") =>
         /\ batch.list = <<>>
         /\ \E t \in Members : sres[t].kind = "err" /\ sres[t].err = batch.err
    /\ batch.pc \in {"running", "stuck"} =>
         \A t \in Members : sres[t].kind # "err"

\* a batch of two returned both results in input order although the second
\* query's search completed first and the two results differ
C17_Witness ==
    /\ batch.pc = "done" /\ batch.kind = "ok"
    /\ Len(batch.queries) = 2
    /\ finished = <<TaskOf[2], TaskOf[1]>>
    /\ batch.list[1] # batch.list[2]
    /\ batch.list[1].query_path = batch.queries[1]


(***************************************************************************)
(* Claims about DlsiteClient values                                        *)
(***************************************************************************)

\* C18: every public entry point ends in a success or in a typed error and
\* never in a panic; in particular constructing a cache or a client with
\* capacity 0 ends in an error.
C18_NoEntryPointPanics ==
    /\ outcome.kind \in {"none", "ok", "err"}
    /\ (outcome.op \in {"new", "build"} /\ outcome.capacity = 0
            => outcome.kind = "err")

SameClient(h, g) ==
    handle[h].live /\ handle[g].live /\ handle[h].root = handle[g].root

C21_GetRawBypassesEverything ==
    [][outcome'.op = "get_raw"
         => /\ outcome'.tries = 1
            /\ UNCHANGED <<handle, arcCache, arcStamp>>]_vars

C21_Witness ==
    /\ outcome.op = "get_raw"
    /\ outcome.kind = "err"
    /\ handle[outcome.via].retry_config.max_retries > 0
    /\ arcCache[handle[outcome.via].cache].entries # <<>>
    /\ arcStamp[handle[outcome.via].last_request_time] = now

(***************************************************************************)
(* Further claims about DlsiteClient::get, checked under Spec.             *)
(***************************************************************************)

\* C22: each pass through the rate limiter ends by storing, as the last
\* dispatch time, the clock value after any wait has finished, not the
\* value read before waiting: the stored time is the time of the dispatch.
C22_StampIsDispatchTime ==
    [][\A p \in Callers : Dispatches(p) => lastRequestTime' = now]_vars

(***************************************************************************)
(* Recency of a hit, checked under SpecCache.                              *)
(***************************************************************************)

\* C30: a get that hits an unexpired entry makes it the most recently used
\* one, so in a cache of capacity 2 or more the insert that follows does not
\* evict it: after insert k1, insert k2, get(k1), insert k3 at capacity 2
\* the cache holds k1 and k3.
C30_HitRefreshesRecency ==
    [][(last.op = "get" /\ last.ret # None)
         => /\ cache[1].key = last.key
            /\ (last'.op = "insert" /\ CacheCapacity >= 2)
                 => /\ last.key \in KeysOf(cache')
                    /\ last'.key # last.key
                         => EntryOf(cache', last.key) = EntryOf(cache, last.key)
      ]_vars

\* a get has hit k1, until then the next eviction victim of a full cache
C30_Witness ==
    /\ last.op = "get"
    /\ last.key = "k1"
    /\ last.ret # None
    /\ CacheLen(last.pre) = CacheCapacity
    /\ KeysOf(last.pre) = {"k1", "k2"}
    /\ LeastRecent(last.pre, last.preRank) = "k1"
    /\ last.pre[Len(last.pre)].key = "k1"
    /\ cache[1].key = "k1"
    /\ cache[2].key = "k2"

(***************************************************************************)
(* The rate limiter's wait, checked under SpecLimiter.                     *)
(***************************************************************************)

\* C29: the rate limiter is never stricter than the nominal interval: a
\* caller whose read shows elapsed >= 500 ms is not suspended at all,
\* otherwise it is suspended for exactly 500 ms - elapsed, so no single wait
\* exceeds 500 ms, also when the clock reads earlier than the stored stamp.
C29_WaitWithinInterval ==
    call.fn = "sleep_time" =>
        LET elapsed == IF call.now >= call.last_time
                       THEN call.now - call.last_time ELSE 0
        IN /\ elapsed >= 500 => ~ret.sleeps
           /\ elapsed < 500 => ret.sleeps /\ ret.ms = 500 - elapsed
           /\ ret.sleeps => ret.ms >= 1 /\ ret.ms <= 500

\* the clock reads earlier than the stamp by more than the interval
C29_Witness ==
    /\ call.fn = "sleep_time"
    /\ call.now + 500 < call.last_time
    /\ ret.sleeps
    /\ ret.ms = 500

(***************************************************************************)
(* The retry loop of DlsiteClient::get, checked under Spec.                *)
(***************************************************************************)

\* C26: within one get every dispatch is immediately preceded by exactly
\* one pass through the rate limiter, and a backoff sleep is followed by a
\* new pass before the next dispatch (rate limiter -> dispatch -> outcome
\* -> backoff -> rate limiter ...): the passes are as many as the
\* dispatches, and the call makes at most one cache insert.
C26_OnePassPerDispatch ==
    [][\A p \in Callers :
        /\ Dispatches(p) => passes[p] = tries[p] + 1
        /\ (pc'[p] = "sent" /\ pc[p] # "sent") => pc[p] = "stamp"
        /\ (pc'[p] = "stamp" /\ pc[p] # "stamp") => pc[p] \in {"rate", "wait"}
        /\ (pc[p] = "backoff" /\ pc'[p] # "backoff") => pc'[p] = "rate"
        /\ (pc[p] = "sent" /\ pc'[p] # "sent") => pc'[p] \in {"backoff", "done"}
        /\ passes'[p] = tries'[p] + (IF pc'[p] \in {"wait", "stamp"} THEN 1 ELSE 0)
        /\ inserts'[p] <= 1
        /\ inserts'[p] = 1 => pc'[p] = "done" /\ result'[p].kind = "ok"
      ]_vars

\* a get that dispatched twice, with a backoff in between, and cached its body
C26_Witness ==
    \E p \in Callers :
        /\ pc[p] = "done"
        /\ result[p].kind = "ok"
        /\ tries[p] = 2
        /\ passes[p] = 2
        /\ attempt[p] = 1
        /\ inserts[p] = 1

\* the error get makes of what upstream answered
ErrorOfAnswer(o) ==
    IF o.t = "error" THEN FromReqwest(o.cause)
    ELSE IF o.status = 429 THEN ErrRateLimit
    ELSE IF o.status < 200 \/ o.status >= 300 THEN ErrHttpStatus(o.status)
    ELSE FromReqwest("body")

\* C27: when every attempt of a get fails, the error returned is the error
\* of the final attempt (the last one recorded), not an earlier one; the
\* generic parse error is returned only if no error was recorded.
C27_LastErrorReturned ==
    \A p \in Callers :
        (pc[p] = "done" /\ result[p].kind = "err")
            => /\ result[p].err = ErrorOfAnswer(answer[p])
               /\ result[p].err = failed[p]
               /\ result[p].err = ErrParse => lastError[p] = NoError

\* the budget is used up and the first attempt failed in another way than
\* the last
C27_Witness ==
    \E p \in Callers :
        /\ pc[p] = "done"
        /\ result[p].kind = "err"
        /\ tries[p] = RetryCfg.max_retries + 1
        /\ lastError[p] # NoError
        /\ lastError[p] # result[p].err

(***************************************************************************)
(* Cancellation, checked under SpecCancel.                                 *)
(***************************************************************************)
CancelsGet(p) == pc[p] \in {"wait", "sent", "backoff"} /\ pc'[p] = "idle"

CancelsSearch(t) == task[t].pc \in {"count", "fetch"} /\ task'[t].pc = "dropped"

\* every entry is whole: one of the bodies that a dispatch returns with 2xx
CompleteResponses(c, bodies) ==
    \A i \in 1..Len(c) :
        /\ c[i].key \in Urls
        /\ c[i].data \in bodies

\* every entry is whole: the items of a page all of whose containers parsed
CompleteResults(c) ==
    \A i \in 1..Len(c) :
        /\ c[i].key \in Paths
        /\ \E pg \in Pages \ {BadJson} :
              /\ ParseSearchHtmlParallel(pg.html).ok
              /\ c[i].data = ParseSearchHtmlParallel(pg.html).items

\* C28: cancelling an in-flight get or search at any suspension point
\* (rate-limiter wait, backoff sleep, network I/O) leaves the shared state
\* consistent: the cancelled call changes neither cache nor the stamp and
\* leaves no lock held, the caches hold only complete entries of successful
\* fetches and parses, and the other callers can still complete: a lock that
\* is held is held by a call in flight, whose get can return.
C28_CancelLeavesStateConsistent ==
    [][ /\ \A p \in Callers :
            CancelsGet(p) => UNCHANGED <<cache, lastRequestTime, resultCache, guard>>
        /\ \A t \in Tasks :
            CancelsSearch(t)
              => /\ UNCHANGED <<cache, lastRequestTime, resultCache>>
                 /\ \A h \in SearchClients : guard'[h] # t
                 /\ \A u \in Tasks \ {t} : task'[u] = task[u] /\ sres'[u] = sres[u]
        /\ CompleteResponses(cache', IF Started' = 0 THEN Bodies ELSE Pages)
        /\ \A h \in SearchClients :
            /\ CompleteResults(resultCache'[h])
            /\ guard'[h] # None => task'[guard'[h]].pc = "count"
      ]_vars

\* a search that held the guard of result_cache with the cached products
\* was dropped and the lock is free again for the task waiting to insert
C28_Witness ==
    \E t, u \in Tasks :
        /\ task[t].pc = "dropped"
        /\ task[t].held # <<>>
        /\ resultCache[task[t].via] # <<>>
        /\ guard[task[t].via] = None
        /\ task[u].pc = "insert"
        /\ task[u].via = task[t].via

(***************************************************************************)
(* Locks of SearchClient, checked under SpecSearch and FairSpecSearch.     *)
(***************************************************************************)

\* C23: no cache lock is held while an operation is suspended on network
\* I/O, on the rate limiter's wait or on a backoff sleep: a search that is
\* suspended in get holds no guard of result_cache, on the
\* result-cache-hit path as on the miss path.
C23_NoLockAcrossSuspension ==
    \A t \in Tasks :
        task[t].pc \in {"count", "fetch"}
            => \A h \in SearchClients : guard[h] # t

InFlight(t) == task[t].pc \in {"start", "count", "fetch", "insert"}

\* C24: concurrent searches on one search client, the searches of a batch
\* included, never deadlock: provided every transport call returns, every
\* search that has begun eventually completes.
C24_SearchesComplete ==
    \A t \in Tasks : InFlight(t) ~> ~InFlight(t)

\* C25: each operation holds at most one lock at any time: no search
\* acquires a lock while it already holds another.
C25_AtMostOneLock ==
    \A t \in Tasks : task[t].peak <= 1

(***************************************************************************)
(* Replacement and lazy expiry, checked under SpecCache.                   *)
(***************************************************************************)

\* C31: inserting a key that is already present replaces its value, resets
\* its expiry to now + ttl and makes it the most recently used entry; no
\* other entry is evicted or moved and len() does not change, also when the
\* cache is full.
C31_ReinsertReplacesInPlace ==
    (last.op = "insert" /\ last.key \in KeysOf(last.pre))
        => /\ cache[1] = [key |-> last.key, data |-> last.ret,
                          expires_at |-> last.at + CacheTtl]
           /\ CacheLen(cache) = CacheLen(last.pre)
           /\ KeysOf(cache) = KeysOf(last.pre)
           /\ Without(cache, last.key) = Without(last.pre, last.key)

\* a full cache whose least recently used key is inserted again, later and
\* with another value
C31_Witness ==
    /\ last.op = "insert"
    /\ CacheLen(last.pre) = CacheCapacity
    /\ CacheCapacity >= 2
    /\ last.key \in KeysOf(last.pre)
    /\ last.pre[Len(last.pre)].key = last.key
    /\ EntryOf(last.pre, last.key).data # last.ret
    /\ EntryOf(last.pre, last.key).expires_at < last.at + CacheTtl
    /\ cache[1].key = last.key

ExpiredKeys(c, t) == {k \in KeysOf(c) : IsExpired(EntryOf(c, k), t)}

\* the remaining entries of c apart from key j, as far as n of them go
Others(c, j, n) == SubSeq(Without(c, j), 1, n)

\* C35: expiry is purely lazy: an entry whose ttl has elapsed stays counted
\* by len() and keeps its place in the recency order until a get for its
\* own key, an eviction or a clear removes it (or an insert of its key
\* replaces it); the passing of time alone changes nothing, and eviction
\* takes the least recently used entry whether or not it, or any other
\* entry, has expired.
C35_ExpiryIsLazy ==
    [][ /\ last' = last => cache' = cache
        /\ last' # last =>
            /\ \A k \in ExpiredKeys(cache, now) :
                \/ k \in KeysOf(cache') /\ EntryOf(cache', k) = EntryOf(cache, k)
                \/ last'.op = "get" /\ last'.key = k
                \/ last'.op = "clear"
                \/ last'.op = "insert" /\ last'.key = k /\ k \in KeysOf(cache')
                \/ /\ last'.op = "insert"
                   /\ last'.key \notin KeysOf(cache)
                   /\ CacheLen(cache) = CacheCapacity
                   /\ cache[Len(cache)].key = k
            /\ last'.op \in {"get", "insert"} =>
                  Without(cache', last'.key) =
                      Others(cache, last'.key, Len(Without(cache', last'.key)))
            /\ (last'.op = "insert" /\ last'.key \notin KeysOf(cache)
                  /\ CacheLen(cache) = CacheCapacity) =>
                  KeysOf(cache') =
                      (KeysOf(cache) \ {cache[Len(cache)].key}) \cup {last'.key}
        /\ CacheLen(cache') = Cardinality(KeysOf(cache'))
      ]_vars

\* an insert into a full cache has evicted an entry whose ttl had not
\* elapsed, and an entry whose ttl has elapsed is still held and counted
C35_Witness ==
    /\ last.op = "insert"
    /\ now = last.at
    /\ last.key \notin KeysOf(last.pre)
    /\ CacheLen(last.pre) = CacheCapacity
    /\ ~IsExpired(last.pre[Len(last.pre)], last.at)
    /\ last.pre[Len(last.pre)].key \notin KeysOf(cache)
    /\ ExpiredKeys(cache, now) # {}
    /\ CacheLen(cache) = CacheCapacity

(***************************************************************************)
(* Failing gets and the stamp, checked under Spec.                         *)
(***************************************************************************)
\* caller p takes a step of its get
Steps(p) == pc'[p] # pc[p] \/ result'[p] # result[p] \/ url'[p] # url[p]

\* caller p's get returns Ok from a dispatch
StoresBody(p) ==
    /\ pc[p] = "sent" /\ pc'[p] = "done"
    /\ result'[p].kind = "ok"
    /\ IsSuccess(answer'[p].status)
    /\ answer'[p].body \in Bodies
    /\ result'[p].body = answer'[p].body

\* C33: a get that fails leaves the response cache unchanged: no step of a
\* get changes the cache except the return of a body, from the cache or
\* from a dispatch that returned 2xx and whose body was read.
C33_FailedGetLeavesCacheUnchanged ==
    [][\A p \in Callers :
        (Steps(p) /\ ~(pc'[p] = "done" /\ result'[p].kind = "ok"))
            => cache' = cache]_vars

\* C33, as the code has it: a get that fails adds no entry and replaces
\* none; all it can do to the cache is remove, at its lookup, the entry of
\* its own URL whose ttl has elapsed.  The cache gains or replaces an entry
\* only by a dispatch that returned 2xx and whose body was read, and a
\* body-read failure after a 2xx status is returned at once, without retry.
C33_FailedGetAddsNothing ==
    [][\A p \in Callers :
        /\ (Steps(p) /\ ~(pc'[p] = "done" /\ result'[p].kind = "ok"))
              => \/ cache' = cache
                 \/ /\ pc[p] \in {"idle", "done"} /\ pc'[p] = "rate"
                    /\ url'[p] \in ExpiredKeys(cache, now)
                    /\ cache' = Without(cache, url'[p])
        /\ (\E u \in KeysOf(cache') :
                u \notin KeysOf(cache) \/ EntryOf(cache', u) # EntryOf(cache, u))
              => \E q \in Callers :
                    /\ StoresBody(q)
                    /\ cache'[1].key = url[q]
                    /\ cache'[1].data = answer'[q].body
        /\ (pc[p] = "sent" /\ IsSuccess(answer'[p].status)
              /\ answer'[p].body = Unreadable)
              => /\ pc'[p] = "done"
                 /\ result'[p] = Err(FromReqwest("body"))
                 /\ cache' = cache
      ]_vars

\* at its first attempt, with retries left, a get could not read the body
\* of a 2xx response and has returned at once; the cache, filled before by
\* the other caller's get, holds nothing
C33_Witness ==
    \E p \in Callers :
        /\ pc[p] = "done"
        /\ result[p] = Err(FromReqwest("body"))
        /\ attempt[p] = 0
        /\ tries[p] = 1
        /\ RetryCfg.max_retries > 0
        /\ cache = <<>>
        /\ lastDispatchAt = now
        /\ \E q \in Callers \ {p} : result[q].kind = "ok" /\ pc[q] = "done"


\* C34: the stored last-dispatch timestamp never moves backwards: every
\* step of every interleaving of concurrent callers leaves lastRequestTime
\* at least as large as it was.
C34_StampNeverMovesBackwards ==
    [][lastRequestTime' >= lastRequestTime]_vars


\* ---------------------------------------------------------------------
\* The stream and the result cache, checked under SpecSearch
\* ---------------------------------------------------------------------

\* task t takes a step of a search_product_stream call
StreamSteps(t) == task'[t] # task[t] /\ task'[t].kind = "stream"

\* task t's search_product call runs its first statements
SearchBegins(t) ==
    /\ task[t].pc \in {"idle", "done", "dropped", "start"}
    /\ task'[t].kind = "search"
    /\ task'[t].pc \notin {"idle", "start", "dropped"}
    /\ task'[t] # task[t]

\* a search_product_stream call for signature q has returned Ok
Streamed(q) ==
    \E u \in Tasks : /\ task[u].pc = "done" /\ task[u].kind = "stream"
                      /\ task[u].query = q /\ sres[u].kind = "ok"

\* C36: search_product_stream neither reads nor writes the result cache:
\* no step of a stream call changes a result cache (its entries, their
\* order, their expiry) or takes its lock; and a search_product for a
\* signature that was streamed, finding no live entry for it in its result
\* cache, takes the miss path: it fetches the envelope, and when it returns
\* Ok it has parsed in bulk and its products are the most recent entry of
\* its result cache.
C36_StreamLeavesResultCacheAlone ==
    [][\A t \in Tasks :
         /\ StreamSteps(t) => resultCache' = resultCache /\ guard' = guard
         /\ (/\ SearchBegins(t)
             /\ Streamed(task'[t].query)
             /\ ~HasUnexpired(resultCache[task'[t].via], task'[t].query, now))
            => /\ task'[t].pc \in {"fetch", "insert", "done"}
               /\ task'[t].held = <<>>
               /\ ~sres'[t].hit
               /\ (task'[t].pc = "done" /\ sres'[t].kind = "ok")
                    => /\ sres'[t].parsed
                       /\ resultCache'[task'[t].via] # <<>>
                       /\ resultCache'[task'[t].via][1].key = task'[t].query
                       /\ resultCache'[task'[t].via][1].data
                            = sres'[t].products]_vars

\* two calls were made in all: a stream that fetched the envelope of a
\* signature and handed items to its callback, then a search for the same
\* signature that was given the envelope by the response cache, parsed it
\* and inserted its products
C36_Witness ==
    /\ Started = 2
    /\ \E u, t \in Tasks :
          /\ task[u].pc = "done" /\ task[u].kind = "stream"
          /\ sres[u].kind = "ok" /\ sres[u].fresh /\ sres[u].fed # <<>>
          /\ task[t].pc = "done" /\ task[t].kind = "search"
          /\ task[t].query = task[u].query
          /\ sres[t].kind = "ok" /\ ~sres[t].hit /\ sres[t].parsed
          /\ ~sres[t].fresh
          /\ resultCache[task[t].via] # <<>>
          /\ resultCache[task[t].via][1].key = task[t].query


\* ---------------------------------------------------------------------
\* Termination of get, checked under FairSpec
\* ---------------------------------------------------------------------

\* a call of get is running in caller p
Running(p) == pc[p] \in {"rate", "wait", "stamp", "sent", "backoff"}

\* the backoff sleeps the running call of p has begun
Backoffs(p) == attempt[p] + (IF pc[p] = "backoff" THEN 1 ELSE 0)

\* C32: every get terminates: provided each transport call returns, a
\* running get reaches its return, with a body or with an error, and at
\* every moment it has made at most max_retries + 1 dispatches, begun at
\* most max_retries backoff sleeps and passed the rate limiter (one wait
\* at most per pass) at most max_retries + 1 times.
C32_GetTerminates ==
    /\ [](\A p \in Callers :
            /\ tries[p] <= RetryCfg.max_retries + 1
            /\ Backoffs(p) <= RetryCfg.max_retries
            /\ passes[p] <= RetryCfg.max_retries + 1
            /\ pc[p] = "wait" => passes[p] = tries[p] + 1)
    /\ \A p \in Callers :
         Running(p) ~> (pc[p] = "done" /\ result[p].kind \in {"ok", "err"})

\* a get has returned the error of its last attempt after max_retries + 1
\* dispatches, max_retries backoff sleeps and max_retries + 1 passes
\* through the rate limiter
C32_Witness ==
    \E p \in Callers :
        /\ pc[p] = "done" /\ result[p].kind = "err"
        /\ tries[p] = RetryCfg.max_retries + 1
        /\ attempt[p] = RetryCfg.max_retries
        /\ passes[p] = RetryCfg.max_retries + 1

====
